---- MODULE Spec2Model ----
(***************************************************************************)
(* Model of the stage-identification / dependency-lineage / diagram        *)
(* rendering pipeline of t-sql-analyzer.                                   *)
(*                                                                         *)
(* Strings are sequences of one-character strings, so that trimming,       *)
(* bracket stripping, splitting on dots and lower-casing are computed the  *)
(* way the code computes them.  SQL text rebuilt from expression nodes is  *)
(* a sequence of atoms (identifiers, operators, the single space " ").     *)
(***************************************************************************)
EXTENDS Naturals, Sequences, FiniteSets, TLC

VARIABLES
    pc,          \* position of the run
    rawId,       \* canonicalizer: the raw identifier handed in
    canonOnce,   \* canonicalizer: canonicalizeIdentifier(rawId)
    canonTwice,  \* canonicalizer: canonicalizeIdentifier(canonOnce)
    whereNode,   \* extractWhereItems: the WHERE expression tree
    whereItems,  \* extractWhereItems: the items returned
    ast,         \* identifyStages: the statement list the parser returned
    stages,      \* identifyStages: the StageSpec list returned
    mermaid,     \* generateMermaidCode: the diagram returned
    mermaidAgain, \* generateMermaidCode: the diagram a second call returned
    request,     \* POST /api/sql-to-diagram: the request received
    response,    \* POST /api/sql-to-diagram: the response returned
    invoked,     \* POST /api/sql-to-diagram: the calls into the pipeline, in order
    sqlText,     \* HomePage: the state sql
    isLoading,   \* HomePage: the state isLoading
    error,       \* HomePage: the state error
    mermaidCode, \* HomePage: the state mermaidCode, the prop of DiagramViewer
    pending,     \* DiagramViewer: the calls of mermaid.render, settled or not
    container    \* DiagramViewer: innerHTML of the container

canonVars  == <<rawId, canonOnce, canonTwice>>
whereVars  == <<whereNode, whereItems>>
stageVars  == <<ast, stages, mermaid, mermaidAgain>>
routeVars  == <<request, response, invoked>>
pageVars   == <<sqlText, isLoading, error>>
viewerVars == <<mermaidCode, pending, container>>
webVars    == <<routeVars, pageVars, viewerVars>>
vars       == <<pc, rawId, canonOnce, canonTwice, whereNode, whereItems, ast, stages,
               mermaid, mermaidAgain, request, response, invoked, sqlText, isLoading,
               error, mermaidCode, pending, container>>

(***************************************************************************)
(* Values                                                                  *)
(***************************************************************************)

\* JavaScript null / undefined in a string position: a value that is no string.
Null == <<"<null>">>

\* A JavaScript object or array sitting where a string was expected.
ObjectValue == <<"<object>">>

\* An absent AST node (undefined / null in a node position).
NoNode == [type |-> "none"]

\* String(v) of a non-string object: "[object Object]".
ObjectString ==
    <<"[", "o", "b", "j", "e", "c", "t", " ", "O", "b", "j", "e", "c", "t", "]">>

Falsy(s) == s = Null \/ s = <<>>

UpperLetters ==
    <<"A", "B", "C", "D", "E", "F", "G", "H", "I", "J", "K", "L", "M",
      "N", "O", "P", "Q", "R", "S", "T", "U", "V", "W", "X", "Y", "Z">>

LowerLetters ==
    <<"a", "b", "c", "d", "e", "f", "g", "h", "i", "j", "k", "l", "m",
      "n", "o", "p", "q", "r", "s", "t", "u", "v", "w", "x", "y", "z">>

\* One character of String.prototype.toLowerCase.
LowerChar(c) ==
    IF \E i \in 1..Len(UpperLetters) : UpperLetters[i] = c
    THEN LowerLetters[CHOOSE i \in 1..Len(UpperLetters) : UpperLetters[i] = c]
    ELSE c

toLowerCase(s) == [i \in 1..Len(s) |-> LowerChar(s[i])]

\* String.prototype.trim: leading and trailing spaces removed.
trim(s) ==
    LET keep == {i \in 1..Len(s) : s[i] # " "}
    IN  IF keep = {} THEN <<>>
        ELSE LET lo == CHOOSE i \in keep : \A j \in keep : i <= j
                 hi == CHOOSE i \in keep : \A j \in keep : j <= i
             IN  SubSeq(s, lo, hi)

startsWith(s, c) == Len(s) > 0 /\ s[1] = c
endsWith(s, c)   == Len(s) > 0 /\ s[Len(s)] = c

\* s.replace(/^<open>|<close>$/g, ''): a leading <open> and a trailing <close>
\* are removed, each if present; a one-character string matches once.
StripEnds(s, open, close) ==
    LET a == IF startsWith(s, open) THEN Tail(s) ELSE s
    IN  IF endsWith(a, close) THEN SubSeq(a, 1, Len(a) - 1) ELSE a

(***************************************************************************)
(* utils/canonicalize                                                      *)
(***************************************************************************)

stripBrackets(s) == StripEnds(StripEnds(s, "[", "]"), "\"", "\"")

getLastIdentifierPart(s) ==
    IF s = <<>> THEN s
    ELSE LET dots  == {i \in 1..Len(s) : s[i] = "."}
             start == IF dots = {} THEN 1
                      ELSE 1 + CHOOSE i \in dots : \A j \in dots : j <= i
         IN  trim(SubSeq(s, start, Len(s)))

\* toLowerCase left out: case variants of one name no longer meet.
canonicalizeIdentifierKeepCase(name) ==
    IF Falsy(name) THEN Null
    ELSE LET v1 == trim(name)
             v2 == IF startsWith(v1, "[") /\ endsWith(v1, "]")
                   THEN SubSeq(v1, 2, Len(v1) - 1) ELSE v1
             v3 == StripEnds(v2, "\"", "\"")
             v4 == getLastIdentifierPart(v3)
         IN  stripBrackets(v4)

canonicalizeIdentifier(name) ==
    IF Falsy(name) THEN Null
    ELSE LET v1 == trim(name)
             v2 == IF startsWith(v1, "[") /\ endsWith(v1, "]")
                   THEN SubSeq(v1, 2, Len(v1) - 1) ELSE v1
             v3 == StripEnds(v2, "\"", "\"")
             v4 == getLastIdentifierPart(v3)
             v5 == stripBrackets(v4)
         IN  toLowerCase(v5)

(***************************************************************************)
(* Inputs of the canonicalizer                                             *)
(***************************************************************************)

\* Longest raw identifier enumerated character by character.
MaxIdLen == 4

IdChars == {"a", "B", "#", "[", "]", "\"", ".", " "}

RECURSIVE StringsUpTo(_)
StringsUpTo(n) ==
    IF n = 0 THEN {<<>>}
    ELSE LET shorter == StringsUpTo(n - 1)
         IN  shorter \cup {Append(s, c) : s \in {t \in shorter : Len(t) = n - 1}, c \in IdChars}

\* Bare identifiers: letters with an optional temp-table marker.
BareNames == {<<"a">>, <<"A">>, <<"a", "B">>, <<"A", "b">>, <<"#", "a">>, <<"#", "A">>}

\* One segment, bare or in one layer of brackets or double quotes.
Wrapped(b) == {b, <<"[">> \o b \o <<"]">>, <<"\"">> \o b \o <<"\"">>}

Qualifiers == {<<>>} \cup {w \o <<".">> : w \in UNION {Wrapped(q) : q \in {<<"B">>, <<"a", "B">>}}}

\* Qualified identifiers as they are written in SQL.
WrittenIds ==
    {q2 \o q1 \o w : q2 \in {<<>>, <<"a", ".">>}, q1 \in Qualifiers,
                     w \in UNION {Wrapped(b) : b \in BareNames}}

RawIds == StringsUpTo(MaxIdLen) \cup WrittenIds \cup {Null}

CanonIdle == rawId = <<>> /\ canonOnce = Null /\ canonTwice = Null
WhereIdle == whereNode = NoNode /\ whereItems = <<>>
StageIdle == ast = <<>> /\ stages = <<>> /\ mermaid = NoNode /\ mermaidAgain = NoNode
RouteIdle == request = NoNode /\ response = NoNode /\ invoked = <<>>
PageIdle == sqlText = <<>> /\ isLoading = FALSE /\ error = Null
ViewerIdle == mermaidCode = <<>> /\ pending = <<>> /\ container = <<>>
WebIdle == RouteIdle /\ PageIdle /\ ViewerIdle

InitCanon ==
    /\ pc = "raw"
    /\ rawId \in RawIds
    /\ canonOnce = Null
    /\ canonTwice = Null
    /\ WhereIdle
    /\ StageIdle
    /\ WebIdle

\* canon = canonicalizeIdentifier(x)
Canonicalize ==
    /\ pc = "raw"
    /\ canonOnce' = canonicalizeIdentifier(rawId)
    /\ pc' = "canon"
    /\ UNCHANGED <<rawId, canonTwice, whereVars, stageVars, webVars>>

\* canonicalizeIdentifier applied to its own result, as isDependencyTable
\* and generateStageLineage do with names that are canonical already.
Recanonicalize ==
    /\ pc = "canon"
    /\ canonTwice' = canonicalizeIdentifier(canonOnce)
    /\ pc' = "recanon"
    /\ UNCHANGED <<rawId, canonOnce, whereVars, stageVars, webVars>>

NextCanon == Canonicalize \/ Recanonicalize

SpecCanon == InitCanon /\ [][NextCanon]_vars

(***************************************************************************)
(* identifyStages.ts: expression text                                      *)
(***************************************************************************)

\* Expression nodes of the parser's AST.
ColumnRef(t, c)     == [type |-> "column_ref", table |-> t, column |-> c]
NumberNode(v)       == [type |-> "number", value |-> v]
StringNode(v)       == [type |-> "string", value |-> v]
BinaryExpr(op, l, r) == [type |-> "binary_expr", operator |-> op, left |-> l, right |-> r]
ExprList(vs)        == [type |-> "expr_list", value |-> vs]
FunctionNode(n, as) == [type |-> "function", name |-> n, args |-> as]
\* A node type extractConditionSql has no branch for (CASE, CAST, ...);
\* unparse is what the library's sqlify returns for it, Null when it throws.
OtherNode(t, u)     == [type |-> t, unparse |-> u]

RECURSIVE JoinTexts(_, _)
JoinTexts(ts, sep) ==
    IF ts = <<>> THEN <<>>
    ELSE IF Len(ts) = 1 THEN ts[1]
    ELSE ts[1] \o sep \o JoinTexts(Tail(ts), sep)

\* The exception of sqlify not caught: the caller gets it.
FallbackSqlUncaught(node) ==
    IF node.unparse = Null THEN <<"<Error>">>
    ELSE IF node.unparse # <<>> THEN node.unparse
    ELSE <<"[Complex Expression]">>

\* try { sqlStr = parser.sqlify(node); if (sqlStr) return sqlStr } catch {}
\* return '[Complex Expression]'
FallbackSql(node) ==
    IF ~Falsy(node.unparse) THEN node.unparse ELSE <<"[Complex Expression]">>

RECURSIVE extractConditionSql(_)
extractConditionSql(node) ==
    CASE node.type = "none" -> <<>>
      [] node.type = "binary_expr" ->
            trim(extractConditionSql(node.left) \o <<" ">> \o node.operator
                 \o <<" ">> \o extractConditionSql(node.right))
      [] node.type = "column_ref" ->
            IF node.table # <<>> /\ node.column # <<>>
            THEN node.table \o <<".">> \o node.column
            ELSE node.column
      [] node.type = "number" -> node.value
      [] node.type \in {"string", "single_quote_string", "double_quote_string"} ->
            <<"'">> \o node.value \o <<"'">>
      [] node.type = "expr_list" ->
            <<"(">> \o JoinTexts([i \in 1..Len(node.value) |->
                                    extractConditionSql(node.value[i])], <<",", " ">>)
                    \o <<")">>
      [] node.type = "function" ->
            node.name \o <<"(">>
                \o JoinTexts([i \in 1..Len(node.args) |->
                                extractConditionSql(node.args[i])], <<",", " ">>)
                \o <<")">>
      [] OTHER -> FallbackSql(node)

\* The operator test of walk left out: OR is flattened like AND.
RECURSIVE extractWhereItemsAnyOperator(_)
extractWhereItemsAnyOperator(whereNd) ==
    IF whereNd.type = "none" THEN <<>>
    ELSE IF whereNd.type = "binary_expr" /\ whereNd.operator \in {<<"AND">>, <<"OR">>}
    THEN extractWhereItemsAnyOperator(whereNd.left)
            \o extractWhereItemsAnyOperator(whereNd.right)
    ELSE LET sql == extractConditionSql(whereNd)
         IN  IF sql # <<>> THEN <<[sql |-> sql]>> ELSE <<>>

\* walk(node) of extractWhereItems, returning what it pushes onto items.
RECURSIVE extractWhereItems(_)
extractWhereItems(whereNd) ==
    IF whereNd.type = "none" THEN <<>>
    ELSE IF whereNd.type = "binary_expr" /\ whereNd.operator = <<"AND">>
    THEN extractWhereItems(whereNd.left) \o extractWhereItems(whereNd.right)
    ELSE LET sql == extractConditionSql(whereNd)
         IN  IF sql # <<>> THEN <<[sql |-> sql]>> ELSE <<>>

(***************************************************************************)
(* Inputs of extractWhereItems                                             *)
(***************************************************************************)

\* Deepest nesting of AND / OR above the predicates of a WHERE tree.
MaxWhereDepth == 2

\* a = 1
PredEq == BinaryExpr(<<"=">>, ColumnRef(<<>>, <<"a">>), NumberNode(<<"1">>))

\* f(t.b) IN ('x', CASE ...), the CASE being rebuilt by the library
PredIn ==
    BinaryExpr(<<"IN">>,
               FunctionNode(<<"f">>, <<ColumnRef(<<"t">>, <<"b">>)>>),
               ExprList(<<StringNode(<<"x">>),
                          OtherNode("case", <<"CASE", " ", "c", " ", "END">>)>>))

\* CAST(...) the library cannot rebuild
PredCast == OtherNode("cast", Null)

\* a = INTERVAL .., for which the library returns the empty text
PredInterval ==
    BinaryExpr(<<"=">>, ColumnRef(<<>>, <<"a">>), OtherNode("interval", <<>>))

Predicates == {PredEq, PredIn, PredCast, PredInterval}

LogicalOps == {<<"AND">>, <<"OR">>}

RECURSIVE WhereTrees(_)
WhereTrees(d) ==
    IF d = 0 THEN Predicates
    ELSE LET sub == WhereTrees(d - 1)
         IN  sub \cup {BinaryExpr(op, l, r) : op \in LogicalOps, l \in sub, r \in sub}

InitWhere ==
    /\ pc = "where"
    /\ whereNode \in WhereTrees(MaxWhereDepth) \cup {NoNode}
    /\ whereItems = <<>>
    /\ CanonIdle
    /\ StageIdle
    /\ WebIdle

\* spec.whereItems = extractWhereItems(ast.where)
ExtractWhere ==
    /\ pc = "where"
    /\ whereItems' = extractWhereItems(whereNode)
    /\ pc' = "flattened"
    /\ UNCHANGED <<whereNode, canonVars, stageVars, webVars>>

NextWhere == ExtractWhere

SpecWhere == InitWhere /\ [][NextWhere]_vars

(***************************************************************************)
(* identifyStages.ts: clause text of FROM and JOIN items                   *)
(***************************************************************************)

\* A select node: a statement body, a derived table or a subquery.  unparse
\* is what the library's sqlify returns for it where it stands as an operand.
SelectNode(f, j, w, g) ==
    [type |-> "select", from |-> f, join |-> j, where |-> w, groupby |-> g,
     unparse |-> <<"(SELECT ...)">>]

\* An entry of a from or join array.  The entries of the inputs carry their
\* name in table, a string; a derived table carries a select node in expr.
FromEntry(j, t, a, e, o) ==
    [join |-> j, db |-> <<>>, schema |-> <<>>, table |-> t, as |-> a,
     expr |-> e, on |-> o]

UpperChar(c) ==
    IF \E i \in 1..Len(LowerLetters) : LowerLetters[i] = c
    THEN UpperLetters[CHOOSE i \in 1..Len(LowerLetters) : LowerLetters[i] = c]
    ELSE c

toUpperCase(s) == [i \in 1..Len(s) |-> UpperChar(s[i])]

\* String.prototype.includes
includes(s, sub) ==
    \E i \in 0..(Len(s) - Len(sub)) : SubSeq(s, i + 1, i + Len(sub)) = sub

\* parts.join('.') of db, schema and table, the empty ones left out
QualifiedTable(item) ==
    (IF item.db # <<>> THEN item.db \o <<".">> ELSE <<>>)
        \o (IF item.schema # <<>> THEN item.schema \o <<".">> ELSE <<>>)
        \o item.table

extractFromSql(fromItem) ==
    LET tablePart == IF fromItem.table # <<>> THEN QualifiedTable(fromItem)
                     ELSE IF fromItem.expr.type = "select" THEN <<"(SELECT ...)">>
                     ELSE <<>>
    IN  IF fromItem.as # <<>> THEN tablePart \o <<" ">> \o fromItem.as ELSE tablePart

extractTableName(item) ==
    IF item.table # <<>> THEN item.table ELSE Null

extractJoinSql(joinItem) ==
    LET joinStr   == toUpperCase(joinItem.join)
        joinType  == IF joinItem.join # <<>>
                     THEN IF includes(joinStr, <<"J", "O", "I", "N">>) THEN joinStr
                          ELSE joinStr \o <<" ", "J", "O", "I", "N">>
                     ELSE <<"J", "O", "I", "N">>
        table0    == IF joinItem.table # <<>> THEN QualifiedTable(joinItem) ELSE <<>>
        tablePart == IF joinItem.as # <<>> THEN table0 \o <<" ">> \o joinItem.as ELSE table0
        onCondition == extractConditionSql(joinItem.on)
    IN  IF onCondition # <<>>
        THEN joinType \o <<" ">> \o tablePart \o <<" ", "ON", " ">> \o onCondition
        ELSE joinType \o <<" ">> \o tablePart

extractGroupBySql(groupItem) ==
    IF groupItem.type = "none" THEN <<>>
    ELSE IF groupItem.type = "column_ref"
    THEN IF groupItem.table # <<>> /\ groupItem.column # <<>>
         THEN groupItem.table \o <<".">> \o groupItem.column
         ELSE groupItem.column
    ELSE extractConditionSql(groupItem)

(***************************************************************************)
(* identifyStages.ts: dependencies                                         *)
(***************************************************************************)

\* Set.prototype.add on a set kept in insertion order
SetAdd(seq, x) == IF \E i \in 1..Len(seq) : seq[i] = x THEN seq ELSE Append(seq, x)

\* The heuristics of the branch taken when no stage-name set is handed in:
\* only names starting with cte_ or # count as stages.
isDependencyTableHeuristic(tableName, stageNameSet) ==
    IF Falsy(tableName) THEN FALSE
    ELSE \/ startsWith(tableName, "#")
         \/ (Len(tableName) >= 4 /\ SubSeq(tableName, 1, 4) = <<"c", "t", "e", "_">>)

\* Every caller hands in the stage-name set.
isDependencyTable(tableName, stageNameSet) ==
    IF Falsy(tableName) THEN FALSE
    ELSE LET canon == canonicalizeIdentifier(tableName)
         IN  ~Falsy(canon) /\ canon \in stageNameSet

\* if (isDependencyTable(canon, stageNameSet) && canon) dependencySet.add(canon)
TrackCanonical(canon, stageNameSet, dependencySet) ==
    IF isDependencyTable(canon, stageNameSet) /\ ~Falsy(canon)
    THEN SetAdd(dependencySet, canon)
    ELSE dependencySet

\* dependencySet.add(tableName), the name as written
TrackWritten(tableName, stageNameSet, dependencySet) ==
    IF isDependencyTable(tableName, stageNameSet)
    THEN SetAdd(dependencySet, tableName)
    ELSE dependencySet

\* if (tableName) { const canon = canonicalizeIdentifier(tableName); ... }
TrackTableName(tableName, stageNameSet, dependencySet) ==
    IF Falsy(tableName) THEN dependencySet
    ELSE TrackCanonical(canonicalizeIdentifier(tableName), stageNameSet, dependencySet)

\* The table name is recorded as written, not in its canonical form.
TrackDependencyRaw(item, stageNameSet, dependencySet) ==
    TrackWritten(extractTableName(item), stageNameSet, dependencySet)

\* const tableName = extractTableName(item); the dependency is tracked under
\* the canonical form of tableName.
TrackDependency(item, stageNameSet, dependencySet) ==
    TrackTableName(extractTableName(item), stageNameSet, dependencySet)

RECURSIVE collectTableNamesFromAst(_, _, _)
RECURSIVE CollectFromEntries(_, _, _)

\* if (expr && expr.type === 'select') collectTableNamesFromAst(expr, ...)
CollectSubquery(expr, stageNameSet, dependencySet) ==
    IF expr.type = "select"
    THEN collectTableNamesFromAst(expr, stageNameSet, dependencySet)
    ELSE dependencySet

\* The loops of collectTableNamesFromAst over node.from and over node.join.
CollectFromEntries(entries, stageNameSet, dependencySet) ==
    IF entries = <<>> THEN dependencySet
    ELSE CollectFromEntries(
            Tail(entries), stageNameSet,
            CollectSubquery(Head(entries).expr, stageNameSet,
                            TrackDependency(Head(entries), stageNameSet, dependencySet)))

\* node.where: a subquery is looked for on the two sides of a binary
\* expression at the root of the WHERE tree, and nowhere else.
CollectWhere(where, stageNameSet, dependencySet) ==
    IF where.type = "binary_expr"
    THEN CollectSubquery(where.right, stageNameSet,
                         CollectSubquery(where.left, stageNameSet, dependencySet))
    ELSE dependencySet

\* The entries of a derived table, the derived tables among them emptied.
CutEntries(es) == [k \in 1..Len(es) |-> [es[k] EXCEPT !.expr = NoNode]]

\* The entries of a node, the derived tables inside its derived tables removed.
FlatEntries(es) ==
    [i \in 1..Len(es) |->
        IF es[i].expr.type = "select"
        THEN [es[i] EXCEPT !.expr = [@ EXCEPT !.from = CutEntries(@), !.join = CutEntries(@)]]
        ELSE es[i]]

\* The descent stops below the first derived table: the derived tables
\* inside a derived table are not looked into.
collectTableNamesOneLevel(node, stageNameSet, dependencySet) ==
    IF node.type = "none" THEN dependencySet
    ELSE CollectWhere(
            node.where, stageNameSet,
            CollectFromEntries(
                FlatEntries(node.join), stageNameSet,
                CollectFromEntries(FlatEntries(node.from), stageNameSet, dependencySet)))

collectTableNamesFromAst(node, stageNameSet, dependencySet) ==
    IF node.type = "none" THEN dependencySet
    ELSE CollectWhere(
            node.where, stageNameSet,
            CollectFromEntries(
                node.join, stageNameSet,
                CollectFromEntries(node.from, stageNameSet, dependencySet)))

(***************************************************************************)
(* identifyStages.ts: extractStageSpec                                     *)
(***************************************************************************)

\* The loop over ast.from: an entry with a join property is a JOIN item,
\* any other a FROM item; acc holds fromItems, joinItems and dependencySet.
\* The alias map the loop also fills is read nowhere and is left out.
RECURSIVE FromLoop(_, _, _)
FromLoop(entries, stageNameSet, acc) ==
    IF entries = <<>> THEN acc
    ELSE LET entry == Head(entries)
             next ==
                IF entry.join # <<>>
                THEN [acc EXCEPT
                        !.joinItems = Append(@, [sql |-> extractJoinSql(entry)]),
                        !.dependencySet = TrackDependency(entry, stageNameSet, @)]
                ELSE IF extractFromSql(entry) # <<>>
                THEN [acc EXCEPT
                        !.fromItems = Append(@, [sql |-> extractFromSql(entry)]),
                        !.dependencySet = TrackDependency(entry, stageNameSet, @)]
                ELSE acc
         IN  FromLoop(Tail(entries), stageNameSet, next)

\* The loop over ast.join, the joins kept in a property of their own.
RECURSIVE JoinLoop(_, _, _)
JoinLoop(entries, stageNameSet, acc) ==
    IF entries = <<>> THEN acc
    ELSE LET entry == Head(entries)
             next == [acc EXCEPT
                        !.joinItems = Append(@, [sql |-> extractJoinSql(entry)]),
                        !.dependencySet = TrackDependency(entry, stageNameSet, @)]
         IN  JoinLoop(Tail(entries), stageNameSet, next)

RECURSIVE GroupByLoop(_)
GroupByLoop(items) ==
    IF items = <<>> THEN <<>>
    ELSE LET groupSql == extractGroupBySql(Head(items))
         IN  (IF groupSql # <<>> THEN <<[sql |-> groupSql]>> ELSE <<>>)
                \o GroupByLoop(Tail(items))

\* The stage as extractStageSpec starts it; identifyStages sets the id.
EmptyStage(name, type) ==
    [id |-> <<"S", "0">>, name |-> name, type |-> type,
     fromItems |-> <<>>, joinItems |-> <<>>, whereItems |-> <<>>,
     groupByItems |-> <<>>, dependencies |-> <<>>]

\* The stage once the loops over from and join have filled acc.
FilledStage(node, name, type, stageNameSet, acc) ==
    [EmptyStage(name, type) EXCEPT
        !.fromItems = acc.fromItems,
        !.joinItems = acc.joinItems,
        !.whereItems = extractWhereItems(node.where),
        !.groupByItems = GroupByLoop(node.groupby),
        !.dependencies = collectTableNamesFromAst(node, stageNameSet, acc.dependencySet)]

extractStageSpec(node, name, type, stageNameSet) ==
    IF node.type = "none" THEN EmptyStage(name, type)
    ELSE FilledStage(
            node, name, type, stageNameSet,
            JoinLoop(node.join, stageNameSet,
                     FromLoop(node.from, stageNameSet,
                              [fromItems |-> <<>>, joinItems |-> <<>>,
                               dependencySet |-> <<>>])))

(***************************************************************************)
(* identifyStages.ts: identifyStages                                       *)
(***************************************************************************)

\* A JavaScript value in a position where the parser puts a name: a string,
\* an object with some of the fields table, expr and value, or nothing.
StrVal(str)       == [kind |-> "string", s |-> str]
ObjVal(t, e, v)   == [kind |-> "object", table |-> t, expr |-> e, value |-> v]
Absent            == [kind |-> "absent"]

Truthy(v) == v.kind = "object" \/ (v.kind = "string" /\ v.s # <<>>)

\* An entry of the WITH clause; stmt is a select node, or the parser's
\* wrapper holding the select node in its field ast.
Cte(n, st)  == [name |-> n, stmt |-> st]
Wrapper(st) == [type |-> "wrapper", ast |-> st]

\* A statement of the list the parser returns.
Statement(ty, w, into, table, sel, body) ==
    [type |-> ty, with |-> w, into |-> into, table |-> table, select |-> sel,
     from |-> body.from, join |-> body.join, where |-> body.where,
     groupby |-> body.groupby, unparse |-> body.unparse]

\* String(name) as identifyStages takes it for the stage-name set.
StringOf(name) == IF name = ObjectValue THEN ObjectString ELSE name

Digits == <<"0", "1", "2", "3", "4", "5", "6", "7", "8", "9">>

RECURSIVE ToDecimal(_)
ToDecimal(n) ==
    IF n < 10 THEN <<Digits[n + 1]>>
    ELSE ToDecimal(n \div 10) \o <<Digits[(n % 10) + 1]>>

\* Ids counted from one.
StageIdFromOne(index) == <<"S">> \o ToDecimal(index + 1)

\* `S${index}`
StageId(index) == <<"S">> \o ToDecimal(index)

\* The WITH loop: a CTE with a name and a statement becomes a stage.
RECURSIVE CteStages(_)
CteStages(ctes) ==
    IF ctes = <<>> THEN <<>>
    ELSE LET cte == Head(ctes)
             cteName == IF cte.name.kind = "string" THEN cte.name.s
                        ELSE IF cte.name.kind = "object" /\ cte.name.value # <<>>
                        THEN cte.name.value
                        ELSE <<>>
             stmtAst == IF cte.stmt.type = "wrapper" THEN cte.stmt.ast ELSE cte.stmt
         IN  (IF cteName # <<>> /\ cte.stmt.type # "none"
              THEN <<[name |-> cteName, type |-> "CTE", ast |-> stmtAst]>>
              ELSE <<>>)
                \o CteStages(Tail(ctes))

\* intoObj?.table || intoObj?.expr || intoObj?.value || intoObj || null
IntoTarget(intoObj) ==
    IF intoObj.kind = "string" THEN intoObj.s
    ELSE IF intoObj.table # <<>> THEN intoObj.table
    ELSE IF intoObj.expr # <<>> THEN intoObj.expr
    ELSE IF intoObj.value # <<>> THEN intoObj.value
    ELSE ObjectValue

\* stmt.table, or its field value when it is an object that has one
InsertTarget(table) ==
    IF table.kind = "string" THEN table.s
    ELSE IF table.value # <<>> THEN table.value
    ELSE ObjectValue

\* INSERT handled without its inner select: the clauses are looked for on
\* the INSERT statement.
MainStageOwnAst(stmt) ==
    IF stmt.type = "select" /\ Truthy(stmt.into)
    THEN <<[name |-> IntoTarget(stmt.into), type |-> "TEMP_TABLE", ast |-> stmt]>>
    ELSE IF stmt.type = "insert" /\ Truthy(stmt.table)
    THEN <<[name |-> InsertTarget(stmt.table), type |-> "TEMP_TABLE_INSERT", ast |-> stmt]>>
    ELSE IF stmt.type = "select" /\ ~Truthy(stmt.into)
    THEN <<[name |-> <<"F", "i", "n", "a", "l", " ", "S", "E", "L", "E", "C", "T">>,
            type |-> "FINAL_SELECT", ast |-> stmt]>>
    ELSE <<>>

\* The classification of the statement itself.
MainStage(stmt) ==
    IF stmt.type = "select" /\ Truthy(stmt.into)
    THEN <<[name |-> IntoTarget(stmt.into), type |-> "TEMP_TABLE", ast |-> stmt]>>
    ELSE IF stmt.type = "insert" /\ Truthy(stmt.table)
    THEN <<[name |-> InsertTarget(stmt.table), type |-> "TEMP_TABLE_INSERT",
            ast |-> IF stmt.select.type # "none" THEN stmt.select ELSE stmt]>>
    ELSE IF stmt.type = "select" /\ ~Truthy(stmt.into)
    THEN <<[name |-> <<"F", "i", "n", "a", "l", " ", "S", "E", "L", "E", "C", "T">>,
            type |-> "FINAL_SELECT", ast |-> stmt]>>
    ELSE <<>>

RECURSIVE ParsedStages(_)
ParsedStages(statements) ==
    IF statements = <<>> THEN <<>>
    ELSE CteStages(Head(statements).with) \o MainStage(Head(statements))
            \o ParsedStages(Tail(statements))

\* canonicalizeIdentifier(String(st.name)) || String(st.name).toLowerCase()
StageCanon(name) ==
    LET canon == canonicalizeIdentifier(StringOf(name))
    IN  IF ~Falsy(canon) THEN canon ELSE toLowerCase(StringOf(name))

\* The stage-name set of the parsed stages.
StageNameSet(parsedStages) ==
    {StageCanon(parsedStages[i].name) : i \in 1..Len(parsedStages)}

\* parsedStages.map((ps, index) => ({...extractStageSpec(..), id: `S${index}`}))
StageSpecs(parsedStages, stageNameSet) ==
    [i \in 1..Len(parsedStages) |->
        [extractStageSpec(parsedStages[i].ast, parsedStages[i].name,
                          parsedStages[i].type, stageNameSet)
            EXCEPT !.id = StageId(i - 1)]]

\* A null where an entry of a from array, of a join array or of the WITH
\* clause is expected: reading a property of it throws a TypeError.
NullEntry == [type |-> "null"]

\* The statement list when parser.astify threw: there is none.
ParseFailure == <<[type |-> "ParseError"]>>

RECURSIVE CollectThrows(_)
RECURSIVE EntriesThrow(_)

\* fromItem.join, fromItem.expr or j.expr read on a null entry, in this
\* array or in the from and join arrays of a subquery below it.
EntriesThrow(entries) ==
    \E i \in 1..Len(entries) :
        \/ entries[i] = NullEntry
        \/ entries[i].expr.type = "select" /\ CollectThrows(entries[i].expr)

\* extractStageSpec throws on the node: its loops and the walk of
\* collectTableNamesFromAst reach every from and join array they descend to.
CollectThrows(node) ==
    /\ node.type # "none"
    /\ \/ EntriesThrow(node.from)
       \/ EntriesThrow(node.join)
       \/ /\ node.where.type = "binary_expr"
          /\ \/ node.where.left.type = "select" /\ CollectThrows(node.where.left)
             \/ node.where.right.type = "select" /\ CollectThrows(node.where.right)

\* cte.name read on a null entry of the WITH clause.
DiscoveryThrows(statements) ==
    \E s \in 1..Len(statements) :
        \E i \in 1..Len(statements[s].with) : statements[s].with[i] = NullEntry

\* Something throws inside the try block of identifyStages.
Throws(statements) ==
    \/ statements = ParseFailure
    \/ DiscoveryThrows(statements)
    \/ \E i \in 1..Len(ParsedStages(statements)) :
            CollectThrows(ParsedStages(statements)[i].ast)

\* The stages built before the one whose extraction throws are returned.
identifyStagesPartial(statements) ==
    IF statements = ParseFailure \/ DiscoveryThrows(statements) THEN <<>>
    ELSE StageSpecs(
            SubSeq(ParsedStages(statements), 1,
                   Cardinality({i \in 1..Len(ParsedStages(statements)) :
                                    \A k \in 1..i :
                                        ~CollectThrows(ParsedStages(statements)[k].ast)})),
            StageNameSet(ParsedStages(statements)))

\* try { .. } catch (error) { return [] }
identifyStages(statements) ==
    IF Throws(statements) THEN <<>>
    ELSE StageSpecs(ParsedStages(statements), StageNameSet(ParsedStages(statements)))

(***************************************************************************)
(* Inputs of identifyStages                                                *)
(***************************************************************************)

\* Most CTEs in a WITH clause.
MaxCtes == 2

\* Deepest nesting of derived tables in a FROM clause.
MaxDepth == 2

NameA    == <<"a">>
NameB    == <<"b">>
NameTemp == <<"#", "t">>

\* The tables named in FROM and JOIN are a, B and #t: a stage when the
\* statement declares one of that canonical name, a base table otherwise.

InnerJoin == <<"I", "N", "N", "E", "R", " ", "J", "O", "I", "N">>

TableEntry(r) == FromEntry(<<>>, r, <<>>, NoNode, NoNode)

JoinEntry(j, r) ==
    FromEntry(j, r, <<"j">>, NoNode,
              BinaryExpr(<<"=">>, ColumnRef(<<"j">>, <<"id">>), ColumnRef(<<>>, <<"id">>)))

Body(f, j, w, g) == SelectNode(f, j, w, g)

\* FROM (SELECT .. FROM (SELECT .. FROM r) t) t, k derived tables deep
RECURSIVE DerivedEntry(_, _)
DerivedEntry(k, r) ==
    IF k = 0 THEN TableEntry(r)
    ELSE FromEntry(<<>>, <<>>, <<"t">>,
                   Body(<<DerivedEntry(k - 1, r)>>, <<>>, NoNode, <<>>), NoNode)

\* x IN (SELECT .. FROM r)
InSubquery(r) ==
    BinaryExpr(<<"IN">>, ColumnRef(<<>>, <<"x">>),
               Body(<<TableEntry(r)>>, <<>>, NoNode, <<>>))

StageWheres ==
    {BinaryExpr(<<"AND">>, PredEq, PredCast),
     InSubquery(<<"a">>),
     BinaryExpr(<<"AND">>, PredEq, InSubquery(<<"B">>))}

EmptyBody == Body(<<>>, <<>>, NoNode, <<>>)

TempBody == Body(<<TableEntry(NameTemp)>>, <<>>, NoNode, <<>>)

\* SELECT .. FROM a INNER JOIN B j ON j.id = id WHERE a = 1 AND CAST(..)
\* GROUP BY j.id, f()
JoinBody ==
    Body(<<TableEntry(<<"a">>), JoinEntry(InnerJoin, <<"B">>)>>, <<>>,
         BinaryExpr(<<"AND">>, PredEq, PredCast),
         <<ColumnRef(<<"j">>, <<"id">>), FunctionNode(<<"f">>, <<>>)>>)

\* The bodies of SELECT .. INTO and of INSERT .. SELECT.
TempTableBodies ==
    {Body(<<TableEntry(r)>>, <<>>, NoNode, <<>>) : r \in {<<"a">>, <<"B">>, NameTemp}}
        \cup {Body(<<DerivedEntry(k, <<"a">>)>>, <<>>, NoNode, <<>>) : k \in 1..MaxDepth}
        \cup {JoinBody}

\* The bodies of a plain SELECT.
StageBodies ==
    {EmptyBody}
        \cup {Body(<<DerivedEntry(k, r)>>, <<>>, NoNode, <<>>) :
                    k \in 0..MaxDepth, r \in {<<"a">>, <<"B">>}}
        \cup {JoinBody,
              Body(<<TableEntry(NameTemp), JoinEntry(<<"l", "e", "f", "t">>, <<"a">>)>>,
                   <<>>, NoNode, <<>>),
              Body(<<TableEntry(NameTemp),
                     FromEntry(InnerJoin, <<>>, <<"d">>,
                               Body(<<TableEntry(<<"B">>)>>, <<>>, NoNode, <<>>), NoNode)>>,
                   <<>>, NoNode, <<>>),
              Body(<<TableEntry(<<"a">>)>>, <<JoinEntry(<<>>, <<"B">>)>>, NoNode, <<>>)}
        \cup {Body(<<TableEntry(NameTemp)>>, <<>>, w, <<>>) : w \in StageWheres}

\* The entries of a WITH clause: a over a base table, a over itself, a over
\* the b declared after it, b over a directly, through nested derived
\* tables and in a join with itself; then a name given as an object beside
\* a wrapped statement, an entry without a name, an entry without a statement.
CteEntries ==
    {Cte(StrVal(NameA), TempBody),
     Cte(StrVal(NameA), Body(<<TableEntry(<<"a">>)>>, <<>>, NoNode, <<>>)),
     Cte(StrVal(NameA), Body(<<TableEntry(<<"B">>)>>, <<>>, NoNode, <<>>)),
     Cte(StrVal(NameB), Body(<<TableEntry(<<"a">>)>>, <<>>, NoNode, <<>>)),
     Cte(StrVal(NameB), JoinBody)}
        \cup {Cte(StrVal(NameB), Body(<<DerivedEntry(k, <<"a">>)>>, <<>>, NoNode, <<>>)) :
                    k \in 1..MaxDepth}
        \cup {Cte(ObjVal(<<>>, <<>>, NameA), Wrapper(Body(<<TableEntry(<<"B">>)>>, <<>>, NoNode, <<>>))),
              Cte(Absent, Body(<<TableEntry(<<"a">>)>>, <<>>, NoNode, <<>>)),
              Cte(StrVal(NameB), NoNode)}

RECURSIVE SeqsUpTo(_, _)
SeqsUpTo(S, n) ==
    IF n = 0 THEN {<<>>}
    ELSE LET shorter == SeqsUpTo(S, n - 1)
         IN  shorter \cup {Append(q, x) : q \in {t \in shorter : Len(t) = n - 1}, x \in S}

\* The governing statement without its WITH clause: a plain SELECT,
\* SELECT .. INTO with the target in each encoding, INSERT .. SELECT with the
\* target in each encoding, INSERT without a select, and an UPDATE.
MainStatements ==
    {Statement("select", <<>>, Absent, Absent, NoNode, b) : b \in StageBodies}
        \cup {Statement("select", <<>>, StrVal(NameTemp), Absent, NoNode, b) :
                    b \in TempTableBodies}
        \cup {Statement("select", <<>>, into, Absent, NoNode, TempBody) :
                    into \in {ObjVal(NameTemp, <<>>, <<>>), ObjVal(<<>>, NameTemp, <<>>),
                              ObjVal(<<>>, <<>>, NameTemp), ObjVal(<<>>, <<>>, <<>>)}}
        \cup {Statement("insert", <<>>, Absent, StrVal(NameTemp), b, EmptyBody) :
                    b \in TempTableBodies}
        \cup {Statement("insert", <<>>, Absent, table, TempBody, EmptyBody) :
                    table \in {ObjVal(<<>>, <<>>, NameTemp), ObjVal(<<>>, <<>>, <<>>)}}
        \cup {Statement("insert", <<>>, Absent, StrVal(NameTemp), NoNode, EmptyBody),
              Statement("update", <<>>, Absent, StrVal(<<"a">>), NoNode,
                        Body(<<TableEntry(<<"a">>)>>, <<>>, NoNode, <<>>))}

\* The statement lists the parser returns: one statement, WITH clause and all.
Asts ==
    {<<[m EXCEPT !.with = w]>> : m \in MainStatements, w \in SeqsUpTo(CteEntries, MaxCtes)}

Init ==
    /\ pc = "parsed"
    /\ ast \in Asts
    /\ stages = <<>>
    /\ mermaid = NoNode
    /\ mermaidAgain = NoNode
    /\ CanonIdle
    /\ WhereIdle
    /\ WebIdle

\* stages = identifyStages(sql), the parser having returned ast
IdentifyStages ==
    /\ pc = "parsed"
    /\ stages' = identifyStages(ast)
    /\ pc' = "identified"
    /\ UNCHANGED <<ast, mermaid, mermaidAgain, canonVars, whereVars, webVars>>

(***************************************************************************)
(* generateMermaid.ts                                                      *)
(***************************************************************************)

\* The replacement of the double quote left out.
RECURSIVE escapeMermaidTextKeepQuote(_)
escapeMermaidTextKeepQuote(text) ==
    IF text = <<>> THEN <<>>
    ELSE (CASE Head(text) = "\\" -> <<"\\", "\\">>
            [] Head(text) = "\n" -> <<" ">>
            [] Head(text) = "\r" -> <<>>
            [] OTHER             -> <<Head(text)>>)
            \o escapeMermaidTextKeepQuote(Tail(text))

RECURSIVE escapeMermaidText(_)
escapeMermaidText(text) ==
    IF text = <<>> THEN <<>>
    ELSE LET c == Head(text)
         IN  (CASE c = "\\" -> <<"\\", "\\">>
                [] c = "\"" -> <<"\\", "\"">>
                [] c = "\n" -> <<" ">>
                [] c = "\r" -> <<>>
                [] OTHER    -> <<c>>)
                \o escapeMermaidText(Tail(text))

createErrorDiagram(message) ==
    <<"flowchart TD", "\n", "    ", "E", "[">> \o escapeMermaidText(message) \o <<"]">>

\* The characters of a stage type, the underscore an atom of its own.
TypeText(type) ==
    CASE type = "CTE"               -> <<"CTE">>
      [] type = "TEMP_TABLE"        -> <<"TEMP", "_", "TABLE">>
      [] type = "TEMP_TABLE_INSERT" -> <<"TEMP", "_", "TABLE", "_", "INSERT">>
      [] type = "FINAL_SELECT"      -> <<"FINAL", "_", "SELECT">>

\* String.prototype.replace with a string pattern: the first match only.
ReplaceFirst(text, c, by) ==
    IF \E i \in 1..Len(text) : text[i] = c
    THEN LET i == CHOOSE k \in 1..Len(text) :
                        text[k] = c /\ \A j \in 1..(k - 1) : text[j] # c
         IN  SubSeq(text, 1, i - 1) \o <<by>> \o SubSeq(text, i + 1, Len(text))
    ELSE text

\* `    ${nodeId}["${label}"]`
NodeLine(stageId, k, label) ==
    <<"    ">> \o stageId \o <<"_N">> \o ToDecimal(k) \o <<"[", "\"">> \o label \o <<"\"", "]">>

\* The WHERE nodes emitted before the JOIN nodes.
NodeLabelsWhereFirst(stage) ==
    [i \in 1..Len(stage.fromItems) |->
        <<"FROM: ">> \o escapeMermaidText(stage.fromItems[i].sql)]
    \o [i \in 1..Len(stage.whereItems) |->
        <<"WHERE: ">> \o escapeMermaidText(stage.whereItems[i].sql)]
    \o [i \in 1..Len(stage.joinItems) |->
        <<"JOIN: ">> \o escapeMermaidText(stage.joinItems[i].sql)]
    \o [i \in 1..Len(stage.groupByItems) |->
        <<"GROUP BY: ">> \o escapeMermaidText(stage.groupByItems[i].sql)]

\* The labels of the nodes of a stage, in the order they are emitted.
NodeLabels(stage) ==
    [i \in 1..Len(stage.fromItems) |->
        <<"FROM: ">> \o escapeMermaidText(stage.fromItems[i].sql)]
    \o [i \in 1..Len(stage.joinItems) |->
        <<"JOIN: ">> \o escapeMermaidText(stage.joinItems[i].sql)]
    \o [i \in 1..Len(stage.whereItems) |->
        <<"WHERE: ">> \o escapeMermaidText(stage.whereItems[i].sql)]
    \o [i \in 1..Len(stage.groupByItems) |->
        <<"GROUP BY: ">> \o escapeMermaidText(stage.groupByItems[i].sql)]

\* Every node connected to the next, the last one back to the first.
ConnectionsClosed(stageId, count) ==
    [i \in 1..count |->
        <<"    ">> \o stageId \o <<"_N">> \o ToDecimal(i - 1) \o <<" ", "-->", " ">>
            \o stageId \o <<"_N">> \o ToDecimal(i % count)]

\* nodeIds.slice(0, -1).map((id, i) => `    ${id} --> ${nodeIds[i + 1]}`)
Connections(stageId, count) ==
    [i \in 1..(count - 1) |->
        <<"    ">> \o stageId \o <<"_N">> \o ToDecimal(i - 1) \o <<" ", "-->", " ">>
            \o stageId \o <<"_N">> \o ToDecimal(i)]

\* The lines of one stage's subgraph.
generateStageSubgraph(stage) ==
    LET stageLabel == StringOf(stage.name) \o <<" ", "(">>
                        \o ReplaceFirst(TypeText(stage.type), "_", " ") \o <<")">>
        escapedLabel == escapeMermaidText(stageLabel)
        labels == NodeLabels(stage)
        nodes  == IF labels = <<>>
                  THEN <<<<"    ">> \o stage.id \o <<"_N">> \o <<"0">>
                            \o <<"[", "\"", "(No SQL clauses)", "\"", "]">>>>
                  ELSE [i \in 1..Len(labels) |-> NodeLine(stage.id, i - 1, labels[i])]
        count  == IF labels = <<>> THEN 1 ELSE Len(labels)
        connections == Connections(stage.id, count)
    IN  <<<<"subgraph", " ">> \o stage.id \o <<"[", "\"">> \o escapedLabel \o <<"\"", "]">>,
          <<"    direction TB">>>>
            \o nodes \o connections \o <<<<"end">>>>

\* The key a stage's id is stored under: canonicalizeIdentifier(name) || name
NameKey(name) ==
    LET canon == canonicalizeIdentifier(name)
    IN  IF ~Falsy(canon) THEN canon ELSE name

\* nameToId keeps the id set first for the key.
NameToIdFirst(stageList, key) ==
    LET hits == {i \in 1..Len(stageList) : NameKey(stageList[i].name) = key}
    IN  IF hits = {} THEN Null
        ELSE stageList[CHOOSE i \in hits : \A j \in hits : i <= j].id

\* nameToId.get(key): the id set last for the key, Null when there is none.
NameToId(stageList, key) ==
    LET hits == {i \in 1..Len(stageList) : NameKey(stageList[i].name) = key}
    IN  IF hits = {} THEN Null
        ELSE stageList[CHOOSE i \in hits : \A j \in hits : j <= i].id

\* The canonical form of the dependency is not taken before the lookup.
RECURSIVE DependencyArrowsRaw(_, _, _)
DependencyArrowsRaw(stageList, stage, deps) ==
    IF deps = <<>> THEN <<>>
    ELSE LET depId == NameToId(stageList, Head(deps))
         IN  (IF ~Falsy(depId) THEN <<depId \o <<" ", "-->", " ">> \o stage.id>> ELSE <<>>)
                \o DependencyArrowsRaw(stageList, stage, Tail(deps))

\* The arrows of one stage: one for each dependency that has an id.
RECURSIVE DependencyArrows(_, _, _)
DependencyArrows(stageList, stage, deps) ==
    IF deps = <<>> THEN <<>>
    ELSE LET depId == NameToId(stageList, NameKey(Head(deps)))
         IN  (IF ~Falsy(depId) THEN <<depId \o <<" ", "-->", " ">> \o stage.id>> ELSE <<>>)
                \o DependencyArrows(stageList, stage, Tail(deps))

RECURSIVE AllDependencyArrows(_, _)
AllDependencyArrows(stageList, i) ==
    IF i > Len(stageList) THEN <<>>
    ELSE DependencyArrows(stageList, stageList[i], stageList[i].dependencies)
            \o AllDependencyArrows(stageList, i + 1)

\* The dependency arrows alone: no sequential chain when there are none.
generateStageLineageNoChain(stageList) == AllDependencyArrows(stageList, 1)

generateStageLineage(stageList) ==
    LET lines == AllDependencyArrows(stageList, 1)
    IN  IF lines = <<>> /\ Len(stageList) > 1
        THEN [i \in 1..(Len(stageList) - 1) |->
                stageList[i].id \o <<" ", "-->", " ">> \o stageList[i + 1].id]
        ELSE lines

\* What a call returns when canonicalizeIdentifier is handed a name that is
\* no string: name.trim is not a function.
ThrownTypeError == <<"<TypeError>">>

\* The stages of a DiagramSpec that has no stages field (!spec.stages).
NoStages == <<NoNode>>

RECURSIVE SubgraphLines(_)
SubgraphLines(stageList) ==
    IF stageList = <<>> THEN <<>>
    ELSE <<<<>>>> \o generateStageSubgraph(Head(stageList)) \o SubgraphLines(Tail(stageList))

\* The lines array kept across calls: a second call returns the lines of
\* the first call followed by its own.
generateMermaidCodeSharedLines(stageList) ==
    IF stageList = NoStages \/ stageList = <<>>
    THEN createErrorDiagram(<<"No stages found in SQL">>)
    ELSE IF \E i \in 1..Len(stageList) : stageList[i].name = ObjectValue
    THEN ThrownTypeError
    ELSE (IF pc = "rendered" THEN mermaid \o <<"\n">> ELSE <<>>)
            \o JoinTexts(<<<<"flowchart TD">>>> \o SubgraphLines(stageList) \o <<<<>>>>
                                \o generateStageLineage(stageList),
                         <<"\n">>)

\* The header alone returned for a spec without stages.
generateMermaidCodeHeaderOnly(stageList) ==
    IF stageList = NoStages \/ stageList = <<>>
    THEN <<"flowchart TD">>
    ELSE IF \E i \in 1..Len(stageList) : stageList[i].name = ObjectValue
    THEN ThrownTypeError
    ELSE JoinTexts(<<<<"flowchart TD">>>> \o SubgraphLines(stageList) \o <<<<>>>>
                        \o generateStageLineage(stageList),
                   <<"\n">>)

generateMermaidCode(stageList) ==
    IF stageList = NoStages \/ stageList = <<>>
    THEN createErrorDiagram(<<"No stages found in SQL">>)
    ELSE IF \E i \in 1..Len(stageList) : stageList[i].name = ObjectValue
    THEN ThrownTypeError
    ELSE JoinTexts(<<<<"flowchart TD">>>> \o SubgraphLines(stageList) \o <<<<>>>>
                        \o generateStageLineage(stageList),
                   <<"\n">>)

\* mermaid = generateMermaidCode({ stages })
GenerateMermaid ==
    /\ pc = "identified"
    /\ mermaid' = generateMermaidCode(stages)
    /\ pc' = "rendered"
    /\ UNCHANGED <<ast, stages, mermaidAgain, canonVars, whereVars, webVars>>

Next == IdentifyStages \/ GenerateMermaid

Spec == Init /\ [][Next]_vars

(***************************************************************************)
(* Inputs of identifyStages on which something throws                      *)
(***************************************************************************)

\* SELECT .. FROM (SELECT .. FROM <null>) d
NullDerived ==
    FromEntry(<<>>, <<>>, <<"d">>, Body(<<NullEntry>>, <<>>, NoNode, <<>>), NoNode)

\* Bodies with a null entry: alone in from, after a table, in join, in the
\* from of a derived table, in the join of a subquery of the WHERE clause.
FailingBodies ==
    {Body(<<NullEntry>>, <<>>, NoNode, <<>>),
     Body(<<TableEntry(<<"a">>), NullEntry>>, <<>>, NoNode, <<>>),
     Body(<<TableEntry(<<"a">>)>>, <<NullEntry>>, NoNode, <<>>),
     Body(<<NullDerived>>, <<>>, NoNode, <<>>),
     Body(<<TableEntry(<<"a">>)>>, <<>>,
          BinaryExpr(<<"IN">>, ColumnRef(<<>>, <<"id">>),
                     SelectNode(<<TableEntry(<<"B">>)>>, <<NullEntry>>, NoNode, <<>>)),
          <<>>)}

\* Bodies without a null entry.
HealthyBodies == {TempBody, JoinBody}

\* Statements whose own extraction throws, in each of the three stage types.
FailingStatements ==
    {Statement("select", <<>>, Absent, Absent, NoNode, b) : b \in FailingBodies}
        \cup {Statement("select", <<>>, StrVal(NameTemp), Absent, NoNode, b) :
                    b \in FailingBodies}
        \cup {Statement("insert", <<>>, Absent, StrVal(NameTemp), b, EmptyBody) :
                    b \in FailingBodies}

HealthyStatements ==
    {Statement("select", <<>>, Absent, Absent, NoNode, b) : b \in HealthyBodies}

\* WITH entries: a over #t, b over a derived table with a null entry, null.
HealthyCtes == {Cte(StrVal(NameA), TempBody)}
FailingCtes == {Cte(StrVal(NameB), Body(<<NullDerived>>, <<>>, NoNode, <<>>)), NullEntry}

\* The inputs on which identifyStages throws inside its try block: the text
\* the parser rejects, a failing statement under any WITH clause, a healthy
\* statement under a WITH clause that has a failing entry.
FailingAsts ==
    {ParseFailure}
        \cup {<<[m EXCEPT !.with = w]>> :
                m \in FailingStatements, w \in SeqsUpTo(HealthyCtes, MaxCtes)}
        \cup {<<[m EXCEPT !.with = w]>> :
                m \in HealthyStatements,
                w \in {q \in SeqsUpTo(HealthyCtes \cup FailingCtes, MaxCtes) :
                            \E i \in 1..Len(q) : q[i] \in FailingCtes}}

\* The inputs on which nothing throws.
HealthyAsts ==
    {<<[m EXCEPT !.with = w]>> :
        m \in HealthyStatements, w \in SeqsUpTo(HealthyCtes, MaxCtes)}

InitFailure ==
    /\ pc = "parsed"
    /\ ast \in FailingAsts \cup HealthyAsts
    /\ stages = <<>>
    /\ mermaid = NoNode
    /\ mermaidAgain = NoNode
    /\ CanonIdle
    /\ WhereIdle
    /\ WebIdle

NextFailure == IdentifyStages \/ GenerateMermaid

SpecFailure == InitFailure /\ [][NextFailure]_vars

(***************************************************************************)
(* Inputs of generateMermaidCode called on a hand-built DiagramSpec        *)
(***************************************************************************)

\* Most stages of a hand-built DiagramSpec.
MaxStages == 3

\* [d].Or, Re and or: the first and the last have one canonical name.
RenderNames == {<<"[", "d", "]", ".", "O", "r">>, <<"R", "e">>, <<"o", "r">>}

DepOr   == <<"O", "r">>
DepRe   == <<"r", "e">>
DepNone == <<"x">>

DependencyLists ==
    {<<>>, <<DepOr>>, <<DepNone>>, <<DepRe, DepOr>>, <<DepOr, DepNone>>}

RenderStages ==
    [name : RenderNames, dependencies : DependencyLists]

\* The stage list of a DiagramSpec, ids as identifyStages assigns them.
DiagramStages(q) ==
    [i \in 1..Len(q) |->
        [id |-> StageId(i - 1), name |-> q[i].name, type |-> "CTE",
         fromItems |-> <<>>, joinItems |-> <<>>, whereItems |-> <<>>,
         groupByItems |-> <<>>, dependencies |-> q[i].dependencies]]

InitRender ==
    /\ pc = "identified"
    /\ ast = <<>>
    /\ stages \in {DiagramStages(q) : q \in SeqsUpTo(RenderStages, MaxStages)}
                    \cup {NoStages}
    /\ mermaid = NoNode
    /\ mermaidAgain = NoNode
    /\ CanonIdle
    /\ WhereIdle
    /\ WebIdle

NextRender == GenerateMermaid

SpecRender == InitRender /\ [][NextRender]_vars

(***************************************************************************)
(* Inputs of generateMermaidCode: labels with characters that are escaped  *)
(***************************************************************************)

\* Longest stage name and longest clause text of a labelled DiagramSpec.
MaxLabelLen == 2

\* A letter, and the four characters escapeMermaidText rewrites.
LabelChars == {"a", "\"", "\\", "\n", "\r"}

RECURSIVE LabelTextsUpTo(_)
LabelTextsUpTo(n) ==
    IF n = 0 THEN {<<>>}
    ELSE LET shorter == LabelTextsUpTo(n - 1)
         IN  shorter \cup {Append(s, c) : s \in {t \in shorter : Len(t) = n - 1},
                                          c \in LabelChars}

LabelTexts == LabelTextsUpTo(MaxLabelLen)

\* One stage named name; sql is the text of its one FROM, JOIN, WHERE and
\* GROUP BY item, the stage having no clause item when sql is empty.
LabelledStage(name, sql) ==
    LET items == IF sql = <<>> THEN <<>> ELSE <<[sql |-> sql]>>
    IN  [id |-> StageId(0), name |-> name, type |-> "TEMP_TABLE_INSERT",
         fromItems |-> items, joinItems |-> items, whereItems |-> items,
         groupByItems |-> items, dependencies |-> <<>>]

InitLabels ==
    /\ pc = "identified"
    /\ ast = <<>>
    /\ stages \in {<<LabelledStage(name, sql)>> :
                        name \in LabelTexts \ {<<>>}, sql \in LabelTexts}
    /\ mermaid = NoNode
    /\ mermaidAgain = NoNode
    /\ CanonIdle
    /\ WhereIdle
    /\ WebIdle

\* A second call: mermaidAgain = generateMermaidCode({ stages })
RenderAgain ==
    /\ pc = "rendered"
    /\ mermaidAgain' = generateMermaidCode(stages)
    /\ pc' = "rerendered"
    /\ UNCHANGED <<ast, stages, mermaid, canonVars, whereVars, webVars>>

NextLabels == GenerateMermaid \/ RenderAgain

SpecLabels == InitLabels /\ [][NextLabels]_vars

(***************************************************************************)
(* app/api/sql-to-diagram/route.ts                                         *)
(***************************************************************************)

\* sql.length > 50000
MaxSqlLength == 50000

\* The field sql of the request body: absent, a number, or a string of
\* `length` characters of which trim() leaves `trimmed`, and which the
\* parser turns into `parsed`, ParseFailure when it rejects the text.
SqlString(length, trimmed, parsed) ==
    [kind |-> "string", length |-> length, trimmed |-> trimmed, parsed |-> parsed]

\* NextResponse.json({ mermaid, spec, error }, { status }); NoNode is null.
JsonResponse(status, text, spec, message) ==
    [status |-> status, mermaid |-> text, spec |-> spec, error |-> message]

\* The size compared before the text is looked at for blankness.
ValidateSizeFirst(sql) ==
    IF sql.kind # "string" \/ sql.length = 0 THEN "required"
    ELSE IF sql.length > MaxSqlLength THEN "large"
    ELSE IF sql.trimmed = 0 THEN "empty"
    ELSE "ok"

\* The three checks on sql, in the order they are made.
Validate(sql) ==
    IF sql.kind # "string" \/ sql.length = 0 THEN "required"
    ELSE IF sql.trimmed = 0 THEN "empty"
    ELSE IF sql.length > MaxSqlLength THEN "large"
    ELSE "ok"

\* The response and the calls made once sql has passed the checks.  The
\* catch around identifyStages is never entered: identifyStages returns [].
Process(stageList, text) ==
    [invoked |-> <<"identifyStages", "generateMermaidCode">>,
     response |->
        IF text = ThrownTypeError
        THEN JsonResponse(500, <<"flowchart TD", "\n", "    ", "E", "[">>
                                    \o ThrownTypeError \o <<"]">>,
                          [stages |-> stageList], ThrownTypeError)
        ELSE JsonResponse(200, text, [stages |-> stageList], Null)]

\* The handler: the response it returns and the calls it makes on the way.
POST(req) ==
    IF req.body # "object"
    THEN [invoked |-> <<>>,
          response |-> JsonResponse(500, <<"flowchart TD", "\n", "    ", "E", "[",
                                           "Internal server error", "]">>,
                                    NoNode, <<"<SyntaxError>">>)]
    ELSE IF Validate(req.sql) = "required"
    THEN [invoked |-> <<>>,
          response |-> JsonResponse(400, <<"flowchart TD", "\n", "    ", "E", "[",
                                           "Error: SQL input is required", "]">>,
                                    NoNode, <<"SQL input is required">>)]
    ELSE IF Validate(req.sql) = "empty"
    THEN [invoked |-> <<>>,
          response |-> JsonResponse(400, <<"flowchart TD", "\n", "    ", "E", "[",
                                           "Error: SQL input cannot be empty", "]">>,
                                    NoNode, <<"SQL input cannot be empty">>)]
    ELSE IF Validate(req.sql) = "large"
    THEN [invoked |-> <<>>,
          response |-> JsonResponse(400, <<"flowchart TD", "\n", "    ", "E", "[",
                                           "Error: SQL input too large", "]">>,
                                    NoNode,
                                    <<"SQL input too large (max 50,000 characters)">>)]
    ELSE Process(identifyStages(req.sql.parsed),
                 generateMermaidCode(identifyStages(req.sql.parsed)))

\* What the parser returns for the texts sent: a rejected text, a plain
\* SELECT alone and under WITH, SELECT INTO a string and an object target,
\* an UPDATE.
RouteAsts ==
    {ParseFailure,
     <<Statement("select", <<>>, Absent, Absent, NoNode, TempBody)>>,
     <<Statement("select", <<Cte(StrVal(NameA), TempBody)>>, Absent, Absent, NoNode,
                 JoinBody)>>,
     <<Statement("select", <<>>, StrVal(NameTemp), Absent, NoNode, TempBody)>>,
     <<Statement("select", <<>>, ObjVal(<<>>, <<>>, <<>>), Absent, NoNode, TempBody)>>,
     <<Statement("update", <<>>, Absent, StrVal(<<"a">>), NoNode, TempBody)>>}

\* The values of sql: none, a number, the empty and a one-character string,
\* and around the size limit blank texts, texts with one surrounding space
\* and texts without, each with what the parser makes of it.
SqlValues ==
    {[kind |-> "undefined"], [kind |-> "number"],
     SqlString(0, 0, ParseFailure), SqlString(1, 0, ParseFailure),
     SqlString(1, 1, ParseFailure)}
        \cup {SqlString(n, 0, ParseFailure) :
                n \in {20, MaxSqlLength - 1, MaxSqlLength, MaxSqlLength + 1}}
        \cup UNION {{SqlString(n, t, p) : t \in {n - 1, n}, p \in RouteAsts} :
                        n \in {20, MaxSqlLength - 1, MaxSqlLength, MaxSqlLength + 1}}

\* The requests: a body that is no JSON, and a JSON object with each sql.
Requests ==
    {[body |-> "invalid"]} \cup {[body |-> "object", sql |-> v] : v \in SqlValues}

InitRoute ==
    /\ pc = "request"
    /\ request \in Requests
    /\ response = NoNode
    /\ invoked = <<>>
    /\ CanonIdle /\ WhereIdle /\ StageIdle
    /\ PageIdle /\ ViewerIdle

\* export async function POST(request)
Post ==
    /\ pc = "request"
    /\ response' = POST(request).response
    /\ invoked' = POST(request).invoked
    /\ pc' = "responded"
    /\ UNCHANGED <<request, canonVars, whereVars, stageVars, pageVars, viewerVars>>

NextRoute == Post

SpecRoute == InitRoute /\ [][NextRoute]_vars

(***************************************************************************)
(* HomePage: handleGenerateDiagram, and the controls of SqlInputForm       *)
(***************************************************************************)

\* disabled={isLoading} of the textarea
TextareaDisabled == isLoading

\* disabled={isLoading || sql.trim().length === 0} of the submit button
SubmitDisabled == isLoading \/ trim(sqlText) = <<>>

\* 'flowchart TD\n    E[Network error]'
NetworkErrorDiagram == <<"flowchart TD", "\n", "    ", "E", "[", "Network error", "]">>

\* What fetch resolves to: the status, whether the body is JSON, and the
\* fields mermaid and error of the body, Null when the body has none.
FetchedResponses ==
    {[status |-> 200, json |-> TRUE,
      mermaid |-> createErrorDiagram(<<"No stages found in SQL">>), error |-> Null],
     [status |-> 200, json |-> TRUE, mermaid |-> Null, error |-> Null],
     [status |-> 400, json |-> TRUE, mermaid |-> <<"flowchart TD">>,
      error |-> <<"SQL input too large (max 50,000 characters)">>],
     [status |-> 500, json |-> TRUE, mermaid |-> Null, error |-> Null],
     [status |-> 502, json |-> FALSE, mermaid |-> Null, error |-> Null]}

\* The texts typed into the textarea.
SqlTexts == {<<>>, <<" ">>, <<"S">>, <<"S", " ">>, <<" ", "S">>}

InitPage ==
    /\ pc = "idle"
    /\ sqlText = <<>>
    /\ isLoading = FALSE
    /\ error = Null
    /\ mermaidCode = <<>>
    /\ response = NoNode
    /\ request = NoNode /\ invoked = <<>>
    /\ pending = <<>> /\ container = <<>>
    /\ CanonIdle /\ WhereIdle /\ StageIdle

\* onChange of the textarea: setSql(e.target.value)
OnSqlChange ==
    /\ ~TextareaDisabled
    /\ \E t \in SqlTexts : sqlText' = t
    /\ UNCHANGED <<pc, isLoading, error, mermaidCode, response, request, invoked,
                   pending, container, canonVars, whereVars, stageVars>>

\* The submit button pressed: handleGenerateDiagram up to await fetch(..)
HandleGenerateDiagram ==
    /\ ~SubmitDisabled
    /\ isLoading' = TRUE
    /\ error' = Null
    /\ pc' = "fetching"
    /\ UNCHANGED <<sqlText, mermaidCode, response, request, invoked,
                   pending, container, canonVars, whereVars, stageVars>>

\* fetch resolves: handleGenerateDiagram goes on to await response.json()
FetchResolves ==
    /\ pc = "fetching"
    /\ \E r \in FetchedResponses : response' = r
    /\ pc' = "reading"
    /\ UNCHANGED <<sqlText, isLoading, error, mermaidCode, request, invoked,
                   pending, container, canonVars, whereVars, stageVars>>

\* The catch block entered and left without the finally block.
FailsNoFinally ==
    /\ \/ pc = "fetching"
       \/ pc = "reading" /\ ~response.json
    /\ error' = IF pc = "fetching" THEN <<"Failed to fetch">> ELSE <<"<SyntaxError>">>
    /\ mermaidCode' = NetworkErrorDiagram
    /\ pc' = "idle"
    /\ UNCHANGED <<sqlText, isLoading, response, request, invoked,
                   pending, container, canonVars, whereVars, stageVars>>

\* fetch rejects, or response.json() rejects: catch, then finally
Fails ==
    /\ \/ pc = "fetching"
       \/ pc = "reading" /\ ~response.json
    /\ error' = IF pc = "fetching" THEN <<"Failed to fetch">> ELSE <<"<SyntaxError>">>
    /\ mermaidCode' = NetworkErrorDiagram
    /\ isLoading' = FALSE
    /\ pc' = "idle"
    /\ UNCHANGED <<sqlText, response, request, invoked,
                   pending, container, canonVars, whereVars, stageVars>>

\* response.json() resolves: the two branches on response.ok, then finally
JsonResolves ==
    /\ pc = "reading"
    /\ response.json
    /\ mermaidCode' = IF Falsy(response.mermaid) THEN <<>> ELSE response.mermaid
    /\ error' = IF response.status \in 200..299 THEN Null
                ELSE IF Falsy(response.error) THEN <<"Failed to generate diagram">>
                ELSE response.error
    /\ isLoading' = FALSE
    /\ pc' = "idle"
    /\ UNCHANGED <<sqlText, response, request, invoked,
                   pending, container, canonVars, whereVars, stageVars>>

NextPage == OnSqlChange \/ HandleGenerateDiagram \/ FetchResolves \/ Fails \/ JsonResolves

SpecPage == InitPage /\ [][NextPage]_vars

\* Every promise the handler awaits settles.
SpecPageLive == SpecPage /\ WF_vars(FetchResolves \/ Fails \/ JsonResolves)

(***************************************************************************)
(* DiagramViewer: the effect on mermaidCode and renderDiagram              *)
(***************************************************************************)

\* Most calls of mermaid.render in one run.
MaxRenders == 3

\* The diagram texts handed in: two that render and one mermaid rejects.
MermaidCodes == {<<"flowchart TD", "A">>, <<"flowchart TD", "B">>, <<"flowchart">>}

\* What renderDiagram writes into the container once mermaid.render has
\* settled: the svg, or the error block with the message.
RenderResult(code) ==
    IF code = <<"flowchart">>
    THEN <<"<div class=\"diagram-error\">", "Failed to render diagram", "<ParseError>">>
    ELSE <<"<svg>">> \o code

InitViewer ==
    /\ pc = "mounted"
    /\ mermaidCode = <<>>
    /\ pending = <<>>
    /\ container = <<>>
    /\ CanonIdle /\ WhereIdle /\ StageIdle
    /\ RouteIdle /\ PageIdle

\* The prop mermaidCode changes and the effect runs.  For the empty text the
\* component shows the placeholder and the container is unmounted; for any
\* other text renderDiagram clears the container and calls mermaid.render.
MermaidCodeChanges ==
    /\ Len(pending) < MaxRenders
    /\ \E c \in MermaidCodes \cup {<<>>} :
            /\ c # mermaidCode
            /\ mermaidCode' = c
            /\ pending' = IF c = <<>> THEN pending
                          ELSE Append(pending, [code |-> c, settled |-> FALSE])
    /\ container' = <<>>
    /\ UNCHANGED <<pc, canonVars, whereVars, stageVars, routeVars, pageVars>>

\* A call of mermaid.render settles and renderDiagram writes its result
\* into containerRef.current; with the container unmounted the write throws.
RenderSettles ==
    /\ \E i \in 1..Len(pending) :
            /\ ~pending[i].settled
            /\ pending' = [pending EXCEPT ![i].settled = TRUE]
            /\ container' = IF mermaidCode = <<>> THEN container
                            ELSE RenderResult(pending[i].code)
    /\ UNCHANGED <<pc, mermaidCode, canonVars, whereVars, stageVars, routeVars, pageVars>>

NextViewer == MermaidCodeChanges \/ RenderSettles

SpecViewer == InitViewer /\ [][NextViewer]_vars

(***************************************************************************)
(* Claims                                                                  *)
(***************************************************************************)

\* The conjuncts of a WHERE tree: the leaves of the maximal tree of AND
\* nodes at its root, left to right.
RECURSIVE AndLeaves(_)
AndLeaves(node) ==
    IF node.type = "binary_expr" /\ node.operator = <<"AND">>
    THEN AndLeaves(node.left) \o AndLeaves(node.right)
    ELSE <<node>>

Range(q) == {q[i] : i \in 1..Len(q)}

\* identifyStages has returned.
Identified == pc \in {"identified", "rendered"}

\* The sub-AST the i-th stage was extracted from.
SubAst(i) == ParsedStages(ast)[i].ast

\* The canonical name of a stage.
CanonicalName(stage) == canonicalizeIdentifier(StringOf(stage.name))

\* The entries of the from and join arrays of a select node.
Entries(node) == Range(node.from) \cup Range(node.join)

\* The tables a select node names in its own FROM clause and JOIN entries.
TopReferences(node) == {e.table : e \in {x \in Entries(node) : x.table # <<>>}}

\* The tables named in the FROM clauses of a select node and of the derived
\* tables in it, at every depth.
RECURSIVE AllFromTables(_)
AllFromTables(node) ==
    TopReferences(node)
        \cup UNION {AllFromTables(e.expr) : e \in {x \in Entries(node) : x.expr.type = "select"}}

\* The tables named in the FROM clauses of the derived tables of a node.
DerivedReferences(node) ==
    UNION {AllFromTables(e.expr) : e \in {x \in Entries(node) : x.expr.type = "select"}}

\* C1: when the FROM clause or a JOIN entry of stage X names a table whose
\* canonical name is that of another stage Y, X.dependencies holds the
\* canonical name of Y.
C1_DependencyEdges ==
    Identified =>
        \A x, y \in 1..Len(stages) :
            x # y =>
                \A t \in TopReferences(SubAst(x)) :
                    canonicalizeIdentifier(t) = CanonicalName(stages[y])
                        => CanonicalName(stages[y]) \in Range(stages[x].dependencies)

\* C1 witness: WITH a AS (.. FROM #t), b AS (.. FROM a) SELECT .. FROM B has
\* been extracted: b depends on a, the final SELECT on b, a on nothing.
C1_Witness ==
    /\ pc = "identified"
    /\ Len(ast[1].with) = 2
    /\ ast[1].with[1] = Cte(StrVal(NameA), TempBody)
    /\ ast[1].with[2] = Cte(StrVal(NameB), Body(<<TableEntry(<<"a">>)>>, <<>>, NoNode, <<>>))
    /\ ast[1].type = "select" /\ ~Truthy(ast[1].into)
    /\ ast[1].from = <<TableEntry(<<"B">>)>>
    /\ Len(stages) = 3
    /\ stages[1].dependencies = <<>>
    /\ stages[2].dependencies = <<<<"a">>>>
    /\ stages[3].type = "FINAL_SELECT"
    /\ stages[3].dependencies = <<<<"b">>>>

\* C2: when a derived table inside the sub-AST of stage X, at any depth of
\* nesting, names stage Y in its FROM clause, X.dependencies holds the
\* canonical name of Y.
C2_DerivedTableDependency ==
    Identified =>
        \A x, y \in 1..Len(stages) :
            \A t \in DerivedReferences(SubAst(x)) :
                canonicalizeIdentifier(t) = CanonicalName(stages[y])
                    => CanonicalName(stages[y]) \in Range(stages[x].dependencies)

\* C2 witness: WITH a AS (.. FROM #t), b AS (.. FROM (.. FROM (.. FROM a) t) t):
\* b depends on a, named two derived tables deep.
C2_Witness ==
    /\ pc = "identified"
    /\ Len(ast[1].with) = 2
    /\ ast[1].with[1] = Cte(StrVal(NameA), TempBody)
    /\ ast[1].with[2].stmt.from = <<DerivedEntry(2, <<"a">>)>>
    /\ TopReferences(SubAst(2)) = {}
    /\ stages[2].name = NameB
    /\ stages[2].dependencies = <<<<"a">>>>

\* An entry of the WITH clause that has a name and a body.
NamedCte(cte) ==
    /\ cte.stmt.type # "none"
    /\ \/ cte.name.kind = "string" /\ cte.name.s # <<>>
       \/ cte.name.kind = "object" /\ cte.name.value # <<>>

DeclaredName(cte) == IF cte.name.kind = "string" THEN cte.name.s ELSE cte.name.value

\* C3: N CTE definitions, each with a name and a body, followed by a plain
\* SELECT give N+1 stages; the stage at position i has id S<i>, the CTE
\* stages stand in declaration order and the FINAL_SELECT stage is last.
C3_StageCountAndOrder ==
    (/\ Identified
     /\ Len(ast) = 1
     /\ ast[1].type = "select" /\ ~Truthy(ast[1].into)
     /\ \A k \in 1..Len(ast[1].with) : NamedCte(ast[1].with[k]))
        => LET n == Len(ast[1].with)
           IN  /\ Len(stages) = n + 1
               /\ \A i \in 1..(n + 1) : stages[i].id = <<"S">> \o ToDecimal(i - 1)
               /\ \A i, j \in 1..(n + 1) : i # j => stages[i].id # stages[j].id
               /\ \A i \in 1..n : /\ stages[i].type = "CTE"
                                  /\ stages[i].name = DeclaredName(ast[1].with[i])
               /\ stages[n + 1].type = "FINAL_SELECT"

\* C3 witness: two CTEs b then a, followed by a plain SELECT, gave S0 = b,
\* S1 = a, S2 = the final SELECT.
C3_Witness ==
    /\ pc = "identified"
    /\ Len(ast[1].with) = 2
    /\ ast[1].with[1].name = StrVal(NameB) /\ ast[1].with[1].stmt.type = "select"
    /\ ast[1].with[2].name = StrVal(NameA)
    /\ ast[1].type = "select" /\ ~Truthy(ast[1].into)
    /\ Len(stages) = 3
    /\ stages[1].name = NameB /\ stages[1].id = <<"S", "0">>
    /\ stages[2].name = NameA /\ stages[2].id = <<"S", "1">>
    /\ stages[3].type = "FINAL_SELECT" /\ stages[3].id = <<"S", "2">>

\* C4: no stage has its own canonical name among its dependencies.
C4_NoSelfLoops ==
    Identified =>
        \A i \in 1..Len(stages) :
            CanonicalName(stages[i]) \notin Range(stages[i].dependencies)

\* The identifier a name position encodes: the string itself, or the first
\* of the fields table, expr, value that an object has.
HasTarget(v) ==
    \/ v.kind = "string" /\ v.s # <<>>
    \/ v.kind = "object" /\ (v.table # <<>> \/ v.expr # <<>> \/ v.value # <<>>)

TargetOf(v) ==
    IF v.kind = "string" THEN v.s
    ELSE IF v.table # <<>> THEN v.table
    ELSE IF v.expr # <<>> THEN v.expr
    ELSE v.value

\* The clause items of a stage are those of the select node: a FROM item for
\* each entry of from without a join type, a JOIN item for each entry with
\* one and for each entry of join, the conjuncts of where, the GROUP BY list.
ClausesTakenFrom(stage, node) ==
    /\ stage.fromItems =
            LET plain == SelectSeq(node.from, LAMBDA e : e.join = <<>>)
            IN  [i \in 1..Len(plain) |-> [sql |-> extractFromSql(plain[i])]]
    /\ stage.joinItems =
            LET joined == SelectSeq(node.from, LAMBDA e : e.join # <<>>) \o node.join
            IN  [i \in 1..Len(joined) |-> [sql |-> extractJoinSql(joined[i])]]
    /\ Len(stage.whereItems) =
            IF node.where.type = "none" THEN 0 ELSE Len(AndLeaves(node.where))
    /\ Len(stage.groupByItems) = Len(node.groupby)

\* C5: SELECT .. INTO <target> gives one stage named after the target, of
\* kind TEMP_TABLE, its clauses taken from the statement; INSERT INTO
\* <target> SELECT .. gives one stage named after the target, of kind
\* TEMP_TABLE_INSERT, its clauses taken from the inner SELECT; a plain
\* SELECT gives a stage of kind FINAL_SELECT.
C5_TempTableKinds ==
    (Identified /\ Len(ast) = 1) =>
        LET stmt == ast[1]
            ctes == Len(CteStages(stmt.with))
            main == stages[Len(stages)]
        IN  /\ (stmt.type = "select" /\ HasTarget(stmt.into)) =>
                    /\ Len(stages) = ctes + 1
                    /\ main.name = TargetOf(stmt.into)
                    /\ main.type = "TEMP_TABLE"
                    /\ ClausesTakenFrom(main, stmt)
            /\ (/\ stmt.type = "insert"
                /\ \/ stmt.table.kind = "string" /\ stmt.table.s # <<>>
                   \/ stmt.table.kind = "object" /\ stmt.table.value # <<>>
                /\ stmt.select.type = "select") =>
                    /\ Len(stages) = ctes + 1
                    /\ main.name = (IF stmt.table.kind = "string"
                                    THEN stmt.table.s ELSE stmt.table.value)
                    /\ main.type = "TEMP_TABLE_INSERT"
                    /\ ClausesTakenFrom(main, stmt.select)
            /\ (stmt.type = "select" /\ ~Truthy(stmt.into)) =>
                    /\ Len(stages) = ctes + 1
                    /\ main.type = "FINAL_SELECT"

\* C5 witness: INSERT INTO #t SELECT .. FROM a INNER JOIN B j .. GROUP BY ..
\* gave one TEMP_TABLE_INSERT stage #t with the inner SELECT's clauses.
C5_Witness ==
    /\ pc = "identified"
    /\ ast[1].type = "insert"
    /\ ast[1].table = StrVal(NameTemp)
    /\ ast[1].select = JoinBody
    /\ ast[1].with = <<>>
    /\ Len(stages) = 1
    /\ stages[1].name = NameTemp
    /\ stages[1].type = "TEMP_TABLE_INSERT"
    /\ stages[1].fromItems = <<[sql |-> <<"a">>]>>
    /\ Len(stages[1].joinItems) = 1
    /\ Len(stages[1].groupByItems) = 2

\* C6: extractWhereItems returns one item per conjunct of the WHERE tree, in
\* source order, and each item holds the full text of its conjunct; a
\* sub-expression whose top operator is not AND (an OR, say) is one conjunct.
C6_WhereFlattening ==
    (pc = "flattened" /\ whereNode # NoNode) =>
        LET leaves == AndLeaves(whereNode)
        IN  /\ Len(whereItems) = Len(leaves)
            /\ \A i \in 1..Len(leaves) :
                    whereItems[i].sql = extractConditionSql(leaves[i])

\* C6 witness: (f(t.b) IN (...) OR a = 1) AND (a = 1 AND CAST(...)) has been
\* flattened into three items, the OR kept whole in the first.
C6_Witness ==
    /\ pc = "flattened"
    /\ whereNode = BinaryExpr(<<"AND">>,
                              BinaryExpr(<<"OR">>, PredIn, PredEq),
                              BinaryExpr(<<"AND">>, PredEq, PredCast))
    /\ Len(whereItems) = 3
    /\ \E i \in 1..Len(whereItems[1].sql) : whereItems[1].sql[i] = "OR"
    /\ whereItems[2].sql = <<"a", " ", "=", " ", "1">>
    /\ whereItems[3].sql = <<"[Complex Expression]">>

\* C7: canonicalizeIdentifier is idempotent: wherever it returns a string,
\* applying it to that string returns the same string.
C7_CanonIdempotent ==
    (pc = "recanon" /\ canonOnce # Null) => canonTwice = canonOnce

\* The identifier written as qualifiers q, then the bare name b in wrapping w.
IsWritten(raw, b) ==
    \E q2 \in {<<>>, <<"a", ".">>}, q1 \in Qualifiers, w \in Wrapped(b) :
        raw = q2 \o q1 \o w

\* C8: whatever the letter case, the one layer of brackets or double quotes
\* around a segment and the database / schema qualifiers before the last
\* dot, the canonical name is the lower-cased last segment, a leading '#'
\* kept; so identifiers that differ only in those get one canonical name.
C8_CanonInsensitive ==
    pc \in {"canon", "recanon"} =>
        \A b \in BareNames : IsWritten(rawId, b) => canonOnce = toLowerCase(b)

\* C8 witness: "B"."#A" has been canonicalized to #a.
C8_Witness ==
    /\ pc = "canon"
    /\ rawId = <<"\"", "B", "\"", ".", "\"", "#", "A", "\"">>
    /\ IsWritten(rawId, <<"#", "A">>)
    /\ canonOnce = <<"#", "a">>

\* C9: every dependency of every stage is the canonical name of a stage of
\* the same run; a table that is no stage gives clause text only.
C9_OnlyStagesAreDependencies ==
    Identified =>
        \A i \in 1..Len(stages) :
            \A d \in Range(stages[i].dependencies) :
                \E j \in 1..Len(stages) : d = CanonicalName(stages[j])

\* C9 witness: WITH a AS (.. FROM #t) SELECT .. FROM a INNER JOIN B j ..:
\* no stage is called #t or b, so a has its FROM item and no dependency and
\* the final SELECT depends on a alone.
C9_Witness ==
    /\ pc = "identified"
    /\ ast[1].with = <<Cte(StrVal(NameA), TempBody)>>
    /\ ast[1].type = "select" /\ ~Truthy(ast[1].into)
    /\ ast[1].from = JoinBody.from
    /\ Len(stages) = 2
    /\ stages[1].fromItems = <<[sql |-> NameTemp]>>
    /\ stages[1].dependencies = <<>>
    /\ Len(stages[2].joinItems) = 1
    /\ stages[2].dependencies = <<<<"a">>>>

\* The lines of a text.
RECURSIVE SplitLines(_)
SplitLines(text) ==
    IF \A i \in 1..Len(text) : text[i] # "\n" THEN <<text>>
    ELSE LET i == CHOOSE k \in 1..Len(text) :
                        text[k] = "\n" /\ \A j \in 1..(k - 1) : text[j] # "\n"
         IN  <<SubSeq(text, 1, i - 1)>> \o SplitLines(SubSeq(text, i + 1, Len(text)))

\* The lineage arrows of a diagram: the lines after its last empty line.
LineageLines(text) ==
    LET ls     == SplitLines(text)
        blanks == {i \in 1..Len(ls) : ls[i] = <<>>}
        last   == CHOOSE i \in blanks : \A j \in blanks : j <= i
    IN  SubSeq(ls, last + 1, Len(ls))

\* The dependency and the stage name have one canonical name.
Resolves(dep, name) ==
    /\ ~Falsy(canonicalizeIdentifier(dep))
    /\ canonicalizeIdentifier(dep) = canonicalizeIdentifier(name)

\* The (stage, dependency) pairs whose dependency resolves to a stage, from
\* stage i on, in the order of the stages and of their dependency lists.
RECURSIVE ResolvedPairs(_)
ResolvedPairs(i) ==
    IF i > Len(stages) THEN <<>>
    ELSE LET deps == SelectSeq(stages[i].dependencies,
                               LAMBDA d : \E j \in 1..Len(stages) : Resolves(d, stages[j].name))
         IN  [k \in 1..Len(deps) |-> [to |-> stages[i].id, dep |-> deps[k]]]
                \o ResolvedPairs(i + 1)

\* C10: the diagram has one arrow <producerId> --> <dependentId> for each
\* (stage, dependency) pair whose dependency has the canonical name of a
\* stage, the producer being a stage of that canonical name, and no arrow
\* for a dependency that matches no stage.
C10_LineageArrows ==
    (pc = "rendered" /\ stages # <<>> /\ stages # NoStages /\ mermaid # ThrownTypeError) =>
        LET arrows == LineageLines(mermaid)
            pairs  == ResolvedPairs(1)
        IN  /\ pairs # <<>> =>
                /\ Len(arrows) = Len(pairs)
                /\ \A n \in 1..Len(pairs) :
                        \E j \in 1..Len(stages) :
                            /\ Resolves(pairs[n].dep, stages[j].name)
                            /\ arrows[n] = stages[j].id \o <<" ", "-->", " ">> \o pairs[n].to
            /\ (pairs = <<>> /\ Len(stages) = 1) => arrows = <<>>

\* C10 witness: stage S0 named [d].Or, stage S1 named Re with the
\* dependencies Or and x: the one arrow is S0 --> S1.
C10_Witness ==
    /\ pc = "rendered"
    /\ Len(stages) = 2
    /\ stages[1].name = <<"[", "d", "]", ".", "O", "r">>
    /\ stages[1].dependencies = <<>>
    /\ stages[2].name = <<"R", "e">>
    /\ stages[2].dependencies = <<DepOr, DepNone>>
    /\ LineageLines(mermaid) = <<<<"S", "0", " ", "-->", " ", "S", "1">>>>

\* The diagram of a spec that has stages has been returned.
Rendered == pc = "rendered" /\ stages # <<>> /\ stages # NoStages /\ mermaid # ThrownTypeError

\* <from> --> <to>
Arrow(from, to) == from \o <<" ", "-->", " ">> \o to

\* C11: when the spec has n > 1 stages and no dependency resolved to a
\* stage, the lineage arrows are exactly stage[i].id --> stage[i+1].id for
\* i = 0..n-2, in discovery order; with one stage there is no lineage arrow.
C11_SequentialFallback ==
    (Rendered /\ ResolvedPairs(1) = <<>>) =>
        LineageLines(mermaid) =
            [i \in 1..(Len(stages) - 1) |-> Arrow(stages[i].id, stages[i + 1].id)]

\* C11 witness: three stages, none with a dependency that resolves, gave
\* exactly S0 --> S1 and S1 --> S2.
C11_Witness ==
    /\ pc = "rendered"
    /\ stages # NoStages
    /\ Len(stages) = 3
    /\ stages[1].dependencies = <<>>
    /\ stages[2].dependencies = <<DepNone>>
    /\ stages[3].dependencies = <<>>
    /\ LineageLines(mermaid) =
            << <<"S", "0", " ", "-->", " ", "S", "1">>,
               <<"S", "1", " ", "-->", " ", "S", "2">> >>

\* The two stage ids a lineage arrow joins.
ArrowEnds(line) ==
    LET k == CHOOSE i \in 1..Len(line) : line[i] = "-->"
    IN  {SubSeq(line, 1, k - 2), SubSeq(line, k + 2, Len(line))}

\* The edges of the undirected graph of lineage arrows.
LineageEdges == {ArrowEnds(l) : l \in Range(LineageLines(mermaid))}

\* The stage ids reached from the ids in seen over at most n edges.
RECURSIVE ReachedFrom(_, _)
ReachedFrom(seen, n) ==
    IF n = 0 THEN seen
    ELSE ReachedFrom(seen \cup UNION {e \in LineageEdges : e \cap seen # {}}, n - 1)

\* C12: for a spec with two or more stages, the undirected graph of the
\* stages and the lineage arrows is connected: every stage is an endpoint
\* of an arrow and all stages are in one component.
C12_NeverDisconnected ==
    (Rendered /\ Len(stages) >= 2) =>
        LET ids == {stages[i].id : i \in 1..Len(stages)}
        IN  /\ \A v \in ids : \E e \in LineageEdges : v \in e
            /\ ReachedFrom({stages[1].id}, Len(stages)) = ids

\* generateMermaidCode has returned under SpecLabels.
LabelsRendered == pc \in {"rendered", "rerendered"}

\* The text with every newline turned into a space and every carriage
\* return removed: what a label shows once its escapes are read back.
RECURSIVE Plain(_)
Plain(raw) ==
    IF raw = <<>> THEN <<>>
    ELSE (IF Head(raw) = "\n" THEN <<" ">>
          ELSE IF Head(raw) = "\r" THEN <<>>
          ELSE <<Head(raw)>>) \o Plain(Tail(raw))

\* Inside a label every backslash starts the pair \\ or \", and there is no
\* double quote, newline or carriage return outside such a pair.
RECURSIVE WellEscaped(_)
WellEscaped(label) ==
    IF label = <<>> THEN TRUE
    ELSE IF Head(label) = "\\"
    THEN /\ Len(label) >= 2
         /\ label[2] \in {"\\", "\""}
         /\ WellEscaped(SubSeq(label, 3, Len(label)))
    ELSE Head(label) \notin {"\"", "\n", "\r"} /\ WellEscaped(Tail(label))

\* The text a well-escaped label stands for.
RECURSIVE Unescape(_)
Unescape(label) ==
    IF label = <<>> THEN <<>>
    ELSE IF Head(label) = "\\" /\ Len(label) >= 2
    THEN <<label[2]>> \o Unescape(SubSeq(label, 3, Len(label)))
    ELSE <<Head(label)>> \o Unescape(Tail(label))

\* The line is opening, then a label escaped exactly once from raw, then "].
LabelLine(line, opening, raw) ==
    /\ Len(line) >= Len(opening) + 2
    /\ SubSeq(line, 1, Len(opening)) = opening
    /\ SubSeq(line, Len(line) - 1, Len(line)) = <<"\"", "]">>
    /\ LET label == SubSeq(line, Len(opening) + 1, Len(line) - 2)
       IN  WellEscaped(label) /\ Unescape(label) = Plain(raw)

ClausePrefixes == <<"FROM: ", "JOIN: ", "WHERE: ", "GROUP BY: ">>

\* C13: the label of the block and the label of every node is the stage
\* name, or the clause text, escaped exactly once: backslash doubled, double
\* quote behind a backslash, newline a space, carriage return gone; no line
\* of the diagram is broken and every label sits between [" and "].
C13_LabelEscaping ==
    LabelsRendered =>
        LET lines == SplitLines(mermaid)
            stage == stages[1]
            nodes == IF stage.fromItems = <<>> THEN 1 ELSE 4
        IN  /\ Len(lines) = 2 * nodes + 5
            /\ LabelLine(lines[3], <<"subgraph", " ", "S", "0", "[", "\"">>,
                         stage.name \o <<" ", "(", "TEMP", " ", "TABLE", "_", "INSERT", ")">>)
            /\ stage.fromItems # <<>> =>
                    \A k \in 1..4 :
                        LabelLine(lines[4 + k],
                                  <<"    ", "S", "0", "_N">> \o ToDecimal(k - 1)
                                        \o <<"[", "\"", ClausePrefixes[k]>>,
                                  stage.fromItems[1].sql)

\* C13 witness: the stage named "<newline> with the clause text \<carriage
\* return> has been rendered: the name shows as \" and a space, the clause
\* text as \\.
C13_Witness ==
    /\ pc = "rendered"
    /\ stages[1].name = <<"\"", "\n">>
    /\ stages[1].fromItems = <<[sql |-> <<"\\", "\r">>]>>
    /\ LET lines == SplitLines(mermaid)
       IN  /\ lines[3] = <<"subgraph", " ", "S", "0", "[", "\"", "\\", "\"", " ",
                           " ", "(", "TEMP", " ", "TABLE", "_", "INSERT", ")", "\"", "]">>
           /\ lines[5] = <<"    ", "S", "0", "_N", "0", "[", "\"", "FROM: ",
                           "\\", "\\", "\"", "]">>

SubgraphStarts(lines) ==
    {i \in 1..Len(lines) : lines[i] # <<>> /\ Head(lines[i]) = "subgraph"}

\* The position of the line that opens the j-th block.
BlockStart(lines, j) ==
    CHOOSE s \in SubgraphStarts(lines) :
        Cardinality({i \in SubgraphStarts(lines) : i <= s}) = j

\* The position of the end line that closes the block opened at s.
BlockEnd(lines, s) ==
    CHOOSE e \in (s + 1)..Len(lines) :
        lines[e] = <<"end">> /\ \A i \in (s + 1)..(e - 1) : lines[i] # <<"end">>

IsArrow(line) == \E i \in 1..Len(line) : line[i] = "-->"

\* The lines between the direction line of the j-th block and its end line.
BlockBody(lines, j) ==
    SubSeq(lines, BlockStart(lines, j) + 2, BlockEnd(lines, BlockStart(lines, j)) - 1)

\* The node lines of the j-th block, in the order they stand in the text.
BlockNodes(lines, j) == SelectSeq(BlockBody(lines, j), LAMBDA l : ~IsArrow(l))

\* The connection lines of the j-th block.
BlockArrows(lines, j) == SelectSeq(BlockBody(lines, j), IsArrow)

\* The clause items of a stage with their prefixes: FROM, JOIN, WHERE, GROUP BY.
ClauseItems(stage) ==
    [i \in 1..Len(stage.fromItems) |->
        [prefix |-> ClausePrefixes[1], sql |-> stage.fromItems[i].sql]]
    \o [i \in 1..Len(stage.joinItems) |->
        [prefix |-> ClausePrefixes[2], sql |-> stage.joinItems[i].sql]]
    \o [i \in 1..Len(stage.whereItems) |->
        [prefix |-> ClausePrefixes[3], sql |-> stage.whereItems[i].sql]]
    \o [i \in 1..Len(stage.groupByItems) |->
        [prefix |-> ClausePrefixes[4], sql |-> stage.groupByItems[i].sql]]

\* The blocks of the diagram are the stages, one block each, in stage order.
BlocksAreStages(lines) ==
    /\ Cardinality(SubgraphStarts(lines)) = Len(stages)
    /\ \A j \in 1..Len(stages) :
            /\ \E e \in (BlockStart(lines, j) + 1)..Len(lines) : lines[e] = <<"end">>
            /\ SubSeq(lines[BlockStart(lines, j)], 1, 3 + Len(stages[j].id))
                    = <<"subgraph", " ">> \o stages[j].id \o <<"[">>

\* C15: the block of every stage holds one node per clause item, the FROM
\* items first, then the JOIN, the WHERE and the GROUP BY items, each
\* category in list order and under its prefix; the k-th node is
\* <stageId>_N<k>, counted from 0 without gaps; a stage without items has
\* the one node <stageId>_N0 labelled (No SQL clauses).
C15_BlockContents ==
    Rendered =>
        LET lines == SplitLines(mermaid)
        IN  /\ BlocksAreStages(lines)
            /\ \A j \in 1..Len(stages) :
                LET items == ClauseItems(stages[j])
                    nodes == BlockNodes(lines, j)
                IN  IF items = <<>>
                    THEN nodes = <<<<"    ">> \o stages[j].id
                                    \o <<"_N", "0", "[", "\"", "(No SQL clauses)", "\"", "]">>>>
                    ELSE /\ Len(nodes) = Len(items)
                         /\ \A k \in 1..Len(items) :
                                LabelLine(nodes[k],
                                          <<"    ">> \o stages[j].id \o <<"_N">>
                                                \o ToDecimal(k - 1)
                                                \o <<"[", "\"", items[k].prefix>>,
                                          items[k].sql)

\* C15 witness: a diagram has been rendered in which one stage has items of
\* all four categories, two of them WHERE items, and another stage has none.
C15_Witness ==
    /\ Rendered
    /\ \E j \in 1..Len(stages) :
            /\ stages[j].fromItems # <<>> /\ stages[j].joinItems # <<>>
            /\ Len(stages[j].whereItems) = 2 /\ Len(stages[j].groupByItems) = 2
            /\ Len(BlockNodes(SplitLines(mermaid), j)) = 6
    /\ \E j \in 1..Len(stages) :
            /\ ClauseItems(stages[j]) = <<>>
            /\ Len(BlockNodes(SplitLines(mermaid), j)) = 1

\* The node id a node line opens with: the atoms between the indent and [.
NodeIdOf(line) ==
    SubSeq(line, 2, (CHOOSE i \in 1..Len(line) :
                        line[i] = "[" /\ \A k \in 1..(i - 1) : line[k] # "[") - 1)

\* C16: a block with m nodes has exactly m - 1 connections, node i --> node
\* i + 1 for the consecutive nodes in emission order and nothing else; a
\* block with one node, the placeholder block included, has none; both ends
\* of every connection are nodes of the block it stands in.
C16_IntraStageConnections ==
    Rendered =>
        LET lines == SplitLines(mermaid)
        IN  /\ BlocksAreStages(lines)
            /\ \A j \in 1..Len(stages) :
                LET nodes  == BlockNodes(lines, j)
                    arrows == BlockArrows(lines, j)
                IN  /\ Len(nodes) >= 1
                    /\ Len(arrows) = Len(nodes) - 1
                    /\ \A i \in 1..Len(arrows) :
                            arrows[i] = <<"    ">> \o NodeIdOf(nodes[i])
                                            \o <<" ", "-->", " ">> \o NodeIdOf(nodes[i + 1])
                    /\ BlockBody(lines, j) = nodes \o arrows

\* C16 witness: a diagram has been rendered with a block of six nodes and
\* five connections, a block of one clause node and a placeholder block, the
\* last two without a connection.
C16_Witness ==
    /\ Rendered
    /\ LET lines == SplitLines(mermaid)
       IN  /\ \E j \in 1..Len(stages) :
                Len(BlockNodes(lines, j)) = 6 /\ Len(BlockArrows(lines, j)) = 5
           /\ \E j \in 1..Len(stages) :
                /\ Len(ClauseItems(stages[j])) = 1
                /\ Len(BlockNodes(lines, j)) = 1 /\ BlockArrows(lines, j) = <<>>
           /\ \E j \in 1..Len(stages) :
                /\ ClauseItems(stages[j]) = <<>>
                /\ Len(BlockNodes(lines, j)) = 1 /\ BlockArrows(lines, j) = <<>>

\* flowchart TD, and on the next line the node E[No stages found in SQL]
ErrorDiagram ==
    <<"flowchart TD", "\n", "    ", "E", "[", "No stages found in SQL", "]">>

\* C17: for a DiagramSpec with zero stages, or without a stages field,
\* generateMermaidCode returns exactly the header and the one node E with the
\* message No stages found in SQL: no subgraph, no arrow, nothing thrown.
C17_EmptySpecRendering ==
    (pc = "rendered" /\ (stages = <<>> \/ stages = NoStages)) =>
        /\ mermaid = ErrorDiagram
        /\ mermaid # ThrownTypeError
        /\ SplitLines(mermaid) = <<<<"flowchart TD">>, <<"    ", "E", "[", "No stages found in SQL", "]">>>>
        /\ \A i \in 1..Len(mermaid) : mermaid[i] \notin {"subgraph", "-->"}

\* C17 witness: the spec with the empty stage list has been rendered as the
\* two lines of the error diagram.
C17_Witness ==
    /\ pc = "rendered"
    /\ stages = <<>>
    /\ Len(SplitLines(mermaid)) = 2
    /\ mermaid[4] = "E"

\* C18: when the parser, the discovery of the stages or the extraction of
\* one stage throws, identifyStages returns the empty stage list: nothing
\* propagates to the caller and the stages built before the failure are not
\* returned; an input on which nothing throws yields its stages.
C18_ExtractorFailure ==
    pc # "parsed" =>
        /\ ast \in FailingAsts => stages = <<>>
        /\ ast \in HealthyAsts => Len(stages) = Len(ast[1].with) + 1

\* C18 witness: WITH a AS (SELECT .. FROM #t) SELECT .. FROM (SELECT .. FROM
\* <null>) d has been handled: the stage a could be built, the extraction
\* of the final SELECT threw, and the list returned is empty.
C18_Witness ==
    /\ pc = "identified"
    /\ ast = <<[Statement("select", <<>>, Absent, Absent, NoNode,
                          Body(<<NullDerived>>, <<>>, NoNode, <<>>))
                    EXCEPT !.with = <<Cte(StrVal(NameA), TempBody)>>]>>
    /\ Len(ParsedStages(ast)) = 2
    /\ ~CollectThrows(ParsedStages(ast)[1].ast)
    /\ stages = <<>>

\* The node types extractConditionSql has a branch for.
RecognisedTypes ==
    {"binary_expr", "column_ref", "number", "string", "single_quote_string",
     "double_quote_string", "expr_list", "function"}

\* The text of a node of no recognised type: what the library returns for
\* it, the fixed placeholder when the library throws or returns nothing.
Degraded(node) ==
    IF node.unparse \notin {Null, <<>>} THEN node.unparse ELSE <<"[Complex Expression]">>

\* C19: extractConditionSql throws for no node; a node of a type it does not
\* recognise yields the text of the library's unparse, and exactly
\* [Complex Expression] when the unparse throws or yields nothing, at the
\* root of a conjunct and below a recognised node alike; equal nodes yield
\* equal texts.
C19_RehydratorDegradation ==
    (pc = "flattened" /\ whereNode # NoNode) =>
        LET leaves == AndLeaves(whereNode)
        IN  /\ Len(whereItems) = Len(leaves)
            /\ \A i \in 1..Len(leaves) :
                /\ whereItems[i].sql # <<"<Error>">>
                /\ leaves[i].type \notin RecognisedTypes =>
                        whereItems[i].sql = Degraded(leaves[i])
                /\ (leaves[i].type = "binary_expr" /\ leaves[i].operator = <<"=">>
                        /\ leaves[i].right.type \notin RecognisedTypes) =>
                        whereItems[i].sql =
                            <<"a", " ", "=", " ">> \o Degraded(leaves[i].right)
                /\ \A j \in 1..Len(leaves) :
                        leaves[i] = leaves[j] => whereItems[i] = whereItems[j]

\* C19 witness: CAST(..) AND (a = INTERVAL .. AND CAST(..)) has been
\* flattened: the placeholder for the CAST the library throws on, both times,
\* and a = [Complex Expression] for the INTERVAL it returns nothing for.
C19_Witness ==
    /\ pc = "flattened"
    /\ whereNode = BinaryExpr(<<"AND">>, PredCast,
                              BinaryExpr(<<"AND">>, PredInterval, PredCast))
    /\ whereItems = <<[sql |-> <<"[Complex Expression]">>],
                      [sql |-> <<"a", " ", "=", " ", "[Complex Expression]">>],
                      [sql |-> <<"[Complex Expression]">>]>>

\* C20: no exception escapes identifyStages or generateMermaidCode: for
\* every AST, the INTO and INSERT targets given as objects included,
\* generateMermaidCode applied to the stage list identifyStages returned
\* returns a diagram text.
C20_NoExceptionEscapes ==
    pc = "rendered" =>
        /\ mermaid # ThrownTypeError
        /\ mermaid # <<>> /\ Head(mermaid) = "flowchart TD"

\* C21: when the governing statement is neither a SELECT, a SELECT INTO nor
\* an INSERT, the stage list is empty, with or without a WITH clause in
\* front of it, and the renderer returns the one-node error diagram.
C21_InputUnusable ==
    (ast[1].type \notin {"select", "insert"}) =>
        /\ Identified => stages = <<>>
        /\ pc = "rendered" => mermaid = ErrorDiagram

\* The number of entries of the WITH clause that have a statement but no
\* name that resolves to a string.
RECURSIVE NamelessCtes(_)
NamelessCtes(ctes) ==
    IF ctes = <<>> THEN 0
    ELSE (IF /\ Head(ctes).stmt.type # "none"
             /\ \/ Head(ctes).name.kind = "absent"
                \/ Head(ctes).name.kind = "object" /\ Head(ctes).name.value = <<>>
          THEN 1 ELSE 0) + NamelessCtes(Tail(ctes))

\* C22: a CTE, a SELECT INTO or an INSERT INTO whose name does not resolve
\* to an identifier string is still emitted, named Final SELECT and of type
\* FINAL_SELECT: no stage has an empty or non-string name, and none is
\* dropped.
C22_UnresolvableNameFallback ==
    Identified =>
        /\ \A i \in 1..Len(stages) : stages[i].name \notin {ObjectValue, Null, <<>>}
        /\ Cardinality({i \in 1..Len(stages) :
                            /\ stages[i].type = "FINAL_SELECT"
                            /\ stages[i].name = <<"F", "i", "n", "a", "l", " ", "S",
                                                  "E", "L", "E", "C", "T">>})
                >= NamelessCtes(ast[1].with)

\* The subqueries standing as an operand anywhere in a WHERE tree.
RECURSIVE WhereSubqueries(_)
WhereSubqueries(node) ==
    IF node.type = "select" THEN {node}
    ELSE IF node.type = "binary_expr"
    THEN WhereSubqueries(node.left) \cup WhereSubqueries(node.right)
    ELSE {}

\* C23: when the FROM clause of a subquery standing anywhere in the WHERE
\* tree of stage X, at the top or under AND / OR, names stage Y, then
\* X.dependencies holds the canonical name of Y.
C23_WhereSubqueryDependency ==
    Identified =>
        \A x, y \in 1..Len(stages) :
            x # y =>
                \A s \in WhereSubqueries(SubAst(x).where) :
                    \A t \in TopReferences(s) :
                        canonicalizeIdentifier(t) = CanonicalName(stages[y])
                            => CanonicalName(stages[y]) \in Range(stages[x].dependencies)

\* The list read from its last element to its first.
Reversed(q) == [i \in 1..Len(q) |-> q[Len(q) + 1 - i]]

\* C24: no dependency list holds a name twice, and the spec that differs
\* only in the order one stage lists its dependencies in is rendered as the
\* same text.
C24_DependencyOrderIrrelevant ==
    Rendered =>
        \A i \in 1..Len(stages) :
            /\ Cardinality(Range(stages[i].dependencies)) = Len(stages[i].dependencies)
            /\ generateMermaidCode(
                    [stages EXCEPT ![i].dependencies = Reversed(stages[i].dependencies)])
                = mermaid

\* C25: every lineage arrow goes from a stage discovered earlier to a stage
\* discovered later, so the lineage graph has no cycle.
C25_DependenciesPointBack ==
    Rendered =>
        \A l \in Range(LineageLines(mermaid)) :
            \E i, j \in 1..Len(stages) :
                i < j /\ l = Arrow(stages[i].id, stages[j].id)

\* The request carries a text that passes the three checks.
ValidSql ==
    /\ request.body = "object"
    /\ request.sql.kind = "string"
    /\ request.sql.trimmed > 0
    /\ request.sql.length <= MaxSqlLength

\* C26: a text that passes validation but cannot be parsed is answered with
\* status 400, a fallback error diagram and an error field, never with 200.
C26_ParseErrorIs400 ==
    (pc = "responded" /\ ValidSql /\ request.sql.parsed = ParseFailure) =>
        /\ response.status = 400
        /\ response.error # Null
        /\ Head(response.mermaid) = "flowchart TD"

\* The 400 response with no spec that carries the message in its diagram.
Rejected(node, message) ==
    /\ response.status = 400
    /\ response.spec = NoNode
    /\ response.mermaid = <<"flowchart TD", "\n", "    ", "E", "[", node, "]">>
    /\ response.error = <<message>>
    /\ invoked = <<>>

LastNamed(dep) ==
    CHOOSE j \in 1..Len(stages) :
        /\ Resolves(dep, stages[j].name)
        /\ \A k \in (j + 1)..Len(stages) : ~Resolves(dep, stages[k].name)

C29_LoadingWhileInFlight ==
    /\ [](isLoading <=> pc \in {"fetching", "reading"})
    /\ [](isLoading => (SubmitDisabled /\ TextareaDisabled))
    /\ (isLoading ~> ~isLoading)
    /\ [][(pc = "reading" /\ response.json /\ response.status \in 200..299)
            => error' = Null]_vars

\* C29 witness: a request has ended with a body that was no JSON: the error
\* is shown, the network error diagram is set, and isLoading is false again.
C29_Witness ==
    /\ pc = "idle"
    /\ response # NoNode
    /\ ~response.json
    /\ error = <<"<SyntaxError>">>
    /\ mermaidCode = NetworkErrorDiagram
    /\ ~isLoading
    /\ ~SubmitDisabled

\* C30: once every render started for the changing mermaidCode has settled,
\* the container shows the rendering, or the render error, of the latest
\* mermaidCode: a render of an older value that settles later does not
\* overwrite the result of a newer one.
C30_LatestRenderShown ==
    (/\ mermaidCode # <<>>
     /\ pending # <<>>
     /\ \A i \in 1..Len(pending) : pending[i].settled)
        => container = RenderResult(mermaidCode)

====
